---- MODULE Spec2Model ----
(***************************************************************************)
(* A model of gias2's femur measurement engine                             *)
(* (src/src/gias2/musculoskeletal/fw_femur_measurements.py).               *)
(*                                                                         *)
(* Geometry is exact integer geometry: points and vectors are triples of   *)
(* integers, directions are parallel to a coordinate axis, so that         *)
(* normalisation, projection on a line and projection on a plane are       *)
(* computed exactly as the code computes them.  The results of the         *)
(* external numerical solvers (FT.fitAxis3D, FT.fitSphere, scipy's fmin)   *)
(* are choices over small candidate sets.                                  *)
(***************************************************************************)
EXTENDS Integers, Sequences, FiniteSets, TLC

VARIABLES
    GF,              \* self.GF: the engine's own copy of the field, or None
    EP,              \* self.EP: evaluation points (a sequence of points), or None
    EPMap,           \* self.EPMap: element -> indices into EP, or None
    shaftAxis,       \* self.shaftAxis
    neckAxis,        \* self.neckAxis (with _planePoints, _searchP0, _searchP1)
    xAxis,           \* self.xAxis
    yAxis,           \* self.yAxis
    epicondylarAxis, \* self.epicondylarAxis
    measurements,    \* self.measurements: name -> measurement
    shaftAligned,    \* self.shaftAligned
    file,            \* the file saveMeasurements writes and loadMeasurements reads
    pc,              \* where the caller is: in __init__, between calls, in a sweep
    ip,              \* index of the next step of __init__ or of calcMeasurements
    sweepRan,        \* the measurement methods the current sweep has called
    err,             \* the exception the last call ended with, "none" if it returned
    lastOp,          \* the last method called
    lastSearch,      \* the locals of the last _findNeckPlaneMinXSection call
    nCalls,          \* number of calls made on the constructed engine
    callerGF,        \* the field object the caller passed to __init__, or None
    other,           \* a second engine constructed from the same field object
    pl,              \* a plane, a point set and what projectClosePoints made of them
    writer,          \* an InpWriter: its _meshes and autoFormat, or None
    inpFile,         \* the lines of the file the InpWriter wrote, or None
    readOut          \* what InpReader.readMesh returned or raised, or None

vars == <<GF, EP, EPMap, shaftAxis, neckAxis, xAxis, yAxis, epicondylarAxis,
          measurements, shaftAligned, file, pc, ip, sweepRan,
          err, lastOp, lastSearch, nCalls, callerGF, other, pl,
          writer, inpFile, readOut>>

\* the variables of the engine
engineVars == <<GF, EP, EPMap, shaftAxis, neckAxis, xAxis, yAxis, epicondylarAxis,
                measurements, shaftAligned, file, pc, ip, sweepRan,
                err, lastOp, lastSearch, nCalls, callerGF, other>>

\* the variables of the INP writer and reader
inpVars == <<writer, inpFile, readOut>>

(***************************************************************************)
(* Bounds of the model.                                                    *)
(***************************************************************************)
\* calls made on an engine after its construction
MaxCalls == 2
\* the line search returns t = k / TDen for k in 0..MaxTK
MaxTK == 3
\* points handed to projectClosePoints; their coordinates and the length of
\* the plane normals
MaxPts == 2
MaxCoord == 2
\* meshes added to one InpWriter
MaxMeshes == 2
\* points in a condyle region
MaxRegion == 3

\* Python's None.  Every value that may be None is a record, so that it can be
\* compared with None: an array is Arr(seq), a dict is Dict(function).
None == [none |-> TRUE]
Arr(ps) == [arr |-> ps]
Dict(f) == [dict |-> f]

(***************************************************************************)
(* Vectors.                                                                *)
(***************************************************************************)
Add(u, v) == <<u[1] + v[1], u[2] + v[2], u[3] + v[3]>>
Sub(u, v) == <<u[1] - v[1], u[2] - v[2], u[3] - v[3]>>
Scale(k, v) == <<k * v[1], k * v[2], k * v[3]>>
Dot(u, v) == u[1] * v[1] + u[2] * v[2] + u[3] * v[3]
Cross(u, v) == <<u[2] * v[3] - u[3] * v[2],
                 u[3] * v[1] - u[1] * v[3],
                 u[1] * v[2] - u[2] * v[1]>>
SumSq(v) == Dot(v, v)
Abs(n) == IF n < 0 THEN -n ELSE n
Sign(n) == IF n < 0 THEN -1 ELSE IF n > 0 THEN 1 ELSE 0

\* the vectors the model normalises: those parallel to a coordinate axis
AxisParallel(v) == Cardinality({i \in 1..3 : v[i] # 0}) = 1

\* _norm(v) = v / |v|
norm(v) ==
    IF AxisParallel(v) THEN <<Sign(v[1]), Sign(v[2]), Sign(v[3])>>
    ELSE [v |-> v, over |-> [sqrt |-> Dot(v, v)]]   \* kept as the quotient

\* _mag(v) = |v|
mag(v) ==
    CHOOSE n \in {Abs(v[1]) + Abs(v[2]) + Abs(v[3])} : AxisParallel(v)

\* a Euclidean length sqrt(n), kept exactly by its square
Sqrt(n) == [sqrt |-> n]

RECURSIVE SeqSum(_)
SeqSum(ps) == IF ps = <<>> THEN <<0, 0, 0>> ELSE Add(Head(ps), SeqSum(Tail(ps)))

\* P.mean(0), kept exactly as (sum, count)
Mean(ps) == [sum |-> SeqSum(ps), n |-> Len(ps)]

\* index of the first least / greatest value: argmin(), argmax()
ArgMin(vs) == CHOOSE i \in 1..Len(vs) :
    /\ \A j \in 1..Len(vs) : vs[i] <= vs[j]
    /\ \A j \in 1..(i - 1) : vs[j] > vs[i]
ArgMax(vs) == CHOOSE i \in 1..Len(vs) :
    /\ \A j \in 1..Len(vs) : vs[i] >= vs[j]
    /\ \A j \in 1..(i - 1) : vs[j] < vs[i]

RECURSIVE Concat(_)
Concat(ss) == IF ss = <<>> THEN <<>> ELSE Head(ss) \o Concat(Tail(ss))

RECURSIVE SortedSeq(_)
\* sorted(S) for a set of integers
SortedSeq(S) ==
    IF S = {} THEN <<>>
    ELSE LET m == CHOOSE x \in S : \A y \in S : x <= y
         IN <<m>> \o SortedSeq(S \ {m})

(***************************************************************************)
(* The field (gias2.fieldwork geometric_field, not among the sources): a   *)
(* mesh of elements over node coordinates.  Element e has the nodes        *)
(* 2e-1 and 2e, the head element two more; evaluating the field samples    *)
(* every element at its nodes.                                             *)
(***************************************************************************)
AllElems == 1..7
NodeIds == 1..16
ElemNodes(e) == IF e = 1 THEN <<1, 2, 15, 16>> ELSE <<2 * e - 1, 2 * e>>

\* region tables of fw_model_landmarks, read as class attributes
headElems == <<1>>
neckElems == <<2>>
neckLongElems == <<2, 3>>
shaftElems == <<4>>
gTrocElems == <<5>>
mCondElems == <<6>>
lCondElems == <<7>>
condyleAlignmentNodes == <<13, 11>>
subtrochanterNodes == <<7, 10, 3, 15>>
midshaftNodes == <<7, 8, 11, 16>>

\* node coordinates of the femur handed to the constructor: shaft along z,
\* neck and head towards +x
Femur0 ==
    <<  <<8, 0, 12>>,  <<9, 0, 13>>,      \* 1 head
        <<2, 0, 8>>,   <<2, 0, 12>>,      \* 2 neck
        <<0, 0, 7>>,   <<7, 0, 13>>,      \* 3 neck, long set only
        <<0, 0, 0>>,   <<0, 0, -6>>,      \* 4 shaft
        <<-1, 0, 11>>, <<-2, 0, 12>>,     \* 5 greater trochanter
        <<3, 0, -9>>,  <<2, 0, -9>>,      \* 6 medial condyle
        <<-2, 0, -9>>, <<-3, 0, -9>>,     \* 7 lateral condyle
        <<8, 1, 12>>,  <<8, -1, 13>> >>   \* 1 head, off the plane y = 0

\* elements a mesh handed to the constructor may lack
MissingElems == {3, 4, 6}
\* the field objects a caller may hand over; obj is the identity of the object
Fields == {[obj |-> 0, elems |-> AllElems, nodes |-> Femur0]}
            \cup {[obj |-> 0, elems |-> AllElems \ {e}, nodes |-> Femur0] :
                        e \in MissingElems}

\* the femur with one of the nodes off the plane y = 0 moved into it
FlatFemur(n) == [Femur0 EXCEPT ![n] = <<8, 0, Femur0[n][3]>>]

\* field objects with a flat ring of midshaft nodes, with a flat head
FlatFields == {[obj |-> 0, elems |-> AllElems, nodes |-> FlatFemur(n)] : n \in {16, 15}}

\* a variant of deepcopy that hands back the object it was given
deepcopy_Same(gf, id) == gf

\* copy.deepcopy(GF): a new object, with identity id, of the same content
deepcopy(gf, id) == [gf EXCEPT !.obj = id]

\* the object a holds is the object b holds
SameObject(a, b) == a # None /\ b # None /\ a.obj = b.obj

\* GF.evaluate_geometric_field(epD).T: the points of the elements, in the
\* order of the sorted element numbers
evaluate_geometric_field(gf) ==
    LET es == SortedSeq(gf.elems)
    IN Concat([i \in 1..Len(es) |->
                  [j \in 1..Len(ElemNodes(es[i])) |-> gf.nodes[ElemNodes(es[i])[j]]]])

\* GF.getElementPointI(epD, sorted(elements)): element -> indices of its points
getElementPointI(gf) ==
    LET es == SortedSeq(gf.elems)
        pos(e) == CHOOSE i \in 1..Len(es) : es[i] = e
        before(e) == Len(Concat([i \in 1..(pos(e) - 1) |-> ElemNodes(es[i])]))
    IN [e \in gf.elems |-> [j \in 1..Len(ElemNodes(e)) |-> before(e) + j]]

\* GF.calc_CoM_2D([5,5]): the centre of mass, on the integer grid
calc_CoM_2D(gf) ==
    LET s == SeqSum(gf.nodes)
    IN <<s[1] \div Len(gf.nodes), s[2] \div Len(gf.nodes), s[3] \div Len(gf.nodes)>>

\* alignment.calcAffine((CoM, pAxes), (0, I)) applied by GF.transformAffine:
\* coordinates relative to CoM along the axes x, y, z
transformAffine(gf, CoM, x, y, z) ==
    [gf EXCEPT !.nodes =
        [n \in NodeIds |-> <<Dot(Sub(gf.nodes[n], CoM), x),
                             Dot(Sub(gf.nodes[n], CoM), y),
                             Dot(Sub(gf.nodes[n], CoM), z)>>]]

\* GF.makeLineElementsFromPoints(nodes, ...).evaluate_geometric_field(...).T
lineElementsEP(gf, nodes) == [i \in 1..Len(nodes) |-> gf.nodes[nodes[i]]]

(***************************************************************************)
(* FT.Line3D and FT.LineElement3D (gias2.common.geoprimitives, not among   *)
(* the sources).                                                           *)
(***************************************************************************)
\* Line3D(a, b): X = a t + b with a unit direction
Line3D(a, b) == [a |-> norm(a), b |-> b]
Line3D_eval(l, t) == Add(Scale(t, l.a), l.b)
\* findClosest(p): the closest point of the line and its parameter t
Line3D_findClosestT(l, p) == Dot(Sub(p, l.b), l.a)
Line3D_findClosest(l, p) == Line3D_eval(l, Line3D_findClosestT(l, p))

\* the line search parameter t is k / TDen; its start 0.5 is 1 / TDen
TDen == 2
\* LineElement3D(p0, p1).eval(k / TDen) = p0 + (k / TDen) (p1 - p0)
LineElement3D_eval(p0, p1, k) ==
    LET d == Scale(k, Sub(p1, p0))
    IN CHOOSE p \in {Add(p0, <<d[1] \div TDen, d[2] \div TDen, d[3] \div TDen>>)} :
          \A i \in 1..3 : d[i] % TDen = 0

(***************************************************************************)
(* _Plane3D                                                                *)
(***************************************************************************)
\* _Plane3D(NP=[N, P]): a x + b y + c z + d = 0
Plane3D(N, P) == [N |-> N, P |-> P, d |-> -Dot(N, P)]

\* distanceToPoints for one point p: D = (N.p + d) / (N.N), kept as the
\* fraction num / den; the projection is p - N D
PlaneNum(plane, p) == Dot(plane.N, p) + plane.d
PlaneDen(plane) == SumSq(plane.N)

\* a variant of PlaneProjection that takes D for N.p + d
PlaneProjection_NoDen(plane, p) == Sub(p, Scale(PlaneNum(plane, p), plane.N))

PlaneProjection(plane, p) ==
    LET v == Scale(PlaneNum(plane, p), plane.N)
        den == PlaneDen(plane)
    IN Sub(p, <<v[1] \div den, v[2] \div den, v[3] \div den>>)

\* abs(D) < maxDist
IsClose(plane, p, maxDist) ==
    Abs(PlaneNum(plane, p)) < maxDist * PlaneDen(plane)

RECURSIVE CloseIndicesFrom(_, _, _, _)
CloseIndicesFrom(plane, P, maxDist, i) ==
    IF i > Len(P) THEN <<>>
    ELSE (IF IsClose(plane, P[i], maxDist) THEN <<i>> ELSE <<>>)
            \o CloseIndicesFrom(plane, P, maxDist, i + 1)

\* projectClosePoints(P, maxDist) -> closeProjections, closeIndices
projectClosePoints(plane, P, maxDist) ==
    LET closeIndices == CloseIndicesFrom(plane, P, maxDist, 1)
    IN [points |-> [j \in 1..Len(closeIndices) |->
                        PlaneProjection(plane, P[closeIndices[j]])],
        indices |-> closeIndices]

(***************************************************************************)
(* NeckMinXSectionFit                                                      *)
(***************************************************************************)
planeProjectionMaxDist == 1

\* candidates for the t that fmin returns in findNeckMinAlongLine: k / TDen
LineTs == 0..MaxTK

\* candidates for the (P, N) that fmin returns in findNeckMin: on the data
\* with a unit normal, beside the data with a longer normal, away from the data
FreePlanes == {[P |-> <<2, 0, 10>>, N |-> <<1, 0, 0>>],
               [P |-> <<1, 0, 10>>, N |-> <<2, 0, 0>>],
               [P |-> <<4, 0, 10>>, N |-> <<1, 0, 0>>]}

\* findNeckMinAlongLine(p0, p1, res) with bestT = k / TDen -> planePoints, bestP
findNeckMinAlongLine(dataPoints, p0, p1, k) ==
    LET planeN == norm(Sub(p1, p0))
        bestP == LineElement3D_eval(p0, p1, k)
        finalPlane == Plane3D(planeN, bestP)
    IN [planePoints |-> projectClosePoints(finalPlane, dataPoints,
                                           planeProjectionMaxDist).points,
        bestP |-> bestP]

\* findNeckMin(initialP, initialN) with X = (finalP, finalN)
\* -> planePoints, finalP, finalN
findNeckMin(dataPoints, X) ==
    LET finalPlane == Plane3D(X.N, X.P)
    IN [planePoints |-> projectClosePoints(finalPlane, dataPoints,
                                           planeProjectionMaxDist).points,
        finalP |-> X.P,
        finalN |-> X.N]

(***************************************************************************)
(* FemurMeasurements: helpers                                              *)
(***************************************************************************)
\* measurement(name, value)
measurement(name, value) == [name |-> name, value |-> value]

\* self.measurements[k] = m
Put(ms, k, m) == [x \in (DOMAIN ms) \cup {k} |-> IF x = k THEN m ELSE ms[x]]

\* every e of elems is a key of EPMap
HasElems(elems) == \A i \in 1..Len(elems) : elems[i] \in DOMAIN EPMap.dict

\* scipy.vstack([self.EP[self.EPMap[e],:] for e in elems])
RegionEP(elems) ==
    Concat([i \in 1..Len(elems) |->
              [j \in 1..Len(EPMap.dict[elems[i]]) |-> EP.arr[EPMap.dict[elems[i]][j]]]])

\* scipy.hstack([self.EPMap[e] for e in elems])
RegionEPi(elems) == Concat([i \in 1..Len(elems) |-> EPMap.dict[elems[i]]])

\* what a region lookup raises: None is not subscriptable, a key is missing
LookupError(elems) ==
    IF EPMap = None \/ EP = None THEN "TypeError"
    ELSE IF ~HasElems(elems) THEN "KeyError"
    ELSE "none"

\* line.findClosest(P)[1] for an array of points
ProjT(line, ps) == [i \in 1..Len(ps) |-> Line3D_findClosestT(line, ps[i])]

RECURSIVE SeqSumInt(_)
SeqSumInt(vs) == IF vs = <<>> THEN 0 ELSE Head(vs) + SeqSumInt(Tail(vs))
\* u.mean() > v.mean()
MeanGreater(u, v) == SeqSumInt(u) * Len(v) > SeqSumInt(v) * Len(u)
SeqMax(vs) == vs[ArgMax(vs)]
SeqMin(vs) == vs[ArgMin(vs)]

(***************************************************************************)
(* FemurMeasurements: the axes                                             *)
(***************************************************************************)
\* results FT.fitAxis3D may return for the shaft: a line along z, either way
ShaftFits(shaftEP) == {Line3D(a, shaftEP[1]) : a \in {<<0, 0, 1>>, <<0, 0, -1>>}}

\* results FT.fitAxis3D may return for the rough neck axis: along x, either way
NeckFits(neckEP) == {Line3D(a, neckEP[1]) : a \in {<<1, 0, 0>>, <<-1, 0, 0>>}}

\* a mutant of FlipZ: the fitted direction is kept as it is
FlipZ_Never(line) == line

\* if self.shaftAxis.a[2] < 0: self.shaftAxis.a *= -1.0
FlipZ(line) == IF line.a[3] < 0 THEN [line EXCEPT !.a = Scale(-1, line.a)] ELSE line

\* a mutant of calcShaftAxis: the axis is initialised before the shaft points
\* are looked up
calcShaftAxis_InitFirst(fit) ==
    LET e == LookupError(shaftElems)
        axis == FlipZ(fit)
    IN IF e # "none"
       THEN [err |-> e, shaftAxis |-> Line3D(<<0, 0, 1>>, <<0, 0, 0>>),
             measurements |-> measurements]
       ELSE [err |-> "none",
             shaftAxis |-> axis,
             measurements |-> Put(measurements, "shaft_axis",
                                  measurement("shaft_axis", <<axis.a, axis.b>>))]

\* calcShaftAxis, with fit the line FT.fitAxis3D returns
calcShaftAxis(fit) ==
    LET e == LookupError(shaftElems)
        axis == FlipZ(fit)
    IN IF e # "none"
       THEN [err |-> e, shaftAxis |-> shaftAxis, measurements |-> measurements]
       ELSE [err |-> "none",
             shaftAxis |-> axis,
             measurements |-> Put(measurements, "shaft_axis",
                                  measurement("shaft_axis", <<axis.a, axis.b>>))]

\* a mutant of SelectNeckPlane: the free search's result, whatever it found
SelectNeckPlane_AlwaysFree(initialNeckAxis, line, free) ==
    [neckPlanePoints |-> free.planePoints,
     neckPlaneNormal |-> free.finalN,
     neckPlaneOrigin |-> free.finalP]

\* the choice at the end of _findNeckPlaneMinXSection: the free search's
\* result, or the line search's when the free search found no point
SelectNeckPlane(initialNeckAxis, line, free) ==
    IF Len(free.planePoints) = 0
    THEN [neckPlanePoints |-> line.planePoints,
          neckPlaneNormal |-> initialNeckAxis.a,
          neckPlaneOrigin |-> line.bestP]
    ELSE [neckPlanePoints |-> free.planePoints,
          neckPlaneNormal |-> free.finalN,
          neckPlaneOrigin |-> free.finalP]

\* _findNeckPlaneMinXSection(initialNeckAxis), with k / TDen the t and X the
\* (P, N) that fmin returns
findNeckPlaneMinXSection(initialNeckAxis, k, X) ==
    IF LookupError(neckLongElems) # "none"
    THEN [err |-> LookupError(neckLongElems)]
    ELSE
    LET neckLongEP == RegionEP(neckLongElems)
        axisPointsT == ProjT(initialNeckAxis, neckLongEP)
        axisPoints == [i \in 1..Len(neckLongEP) |->
                          Line3D_findClosest(initialNeckAxis, neckLongEP[i])]
        initPI == ArgMin([i \in 1..Len(neckLongEP) |->
                             SumSq(Sub(neckLongEP[i], axisPoints[i]))])
        searchP0 == Line3D_eval(initialNeckAxis, SeqMin(axisPointsT) + 0)
        searchP1 == Line3D_eval(initialNeckAxis, SeqMax(axisPointsT) - 5)
        line == findNeckMinAlongLine(neckLongEP, searchP0, searchP1, k)
    IN IF LookupError(neckElems) # "none"
       THEN [err |-> LookupError(neckElems)]
       ELSE
       LET neckEP == RegionEP(neckElems)
           free == findNeckMin(neckLongEP, X)
           sel == SelectNeckPlane(initialNeckAxis, line, free)
       IN [err |-> "none",
           neckPlaneNormal |-> sel.neckPlaneNormal,
           neckPlaneOrigin |-> sel.neckPlaneOrigin,
           neckPlanePoints |-> sel.neckPlanePoints,
           searchP0 |-> searchP0,
           searchP1 |-> searchP1,
           locals |-> [initialA |-> initialNeckAxis.a,
                       initP |-> axisPoints[initPI],
                       returned |-> <<sel.neckPlaneNormal, sel.neckPlaneOrigin,
                                      sel.neckPlanePoints, searchP0, searchP1>>,
                       seedP |-> Mean(neckEP),
                       seedN |-> initialNeckAxis.a,
                       bestT |-> k,
                       planePoints1 |-> line.planePoints,
                       finalP1 |-> line.bestP,
                       planePoints2 |-> free.planePoints,
                       finalP2 |-> free.finalP,
                       finalN |-> free.finalN]]

\* a variant of calcNeckAxis that keeps the rough fit's point as the origin
calcNeckAxis_RoughOrigin(rough, k, X) ==
    LET e == IF LookupError(neckElems) # "none" THEN LookupError(neckElems)
             ELSE LookupError(headElems)
        found == findNeckPlaneMinXSection(rough, k, X)
        fail(x) == [err |-> x, neckAxis |-> neckAxis, measurements |-> measurements,
                    lastSearch |-> lastSearch]
    IN IF e # "none" THEN fail(e)
       ELSE IF found.err # "none" THEN fail(found.err)
       ELSE [err |-> "none",
             neckAxis |-> [a |-> Line3D(found.neckPlaneNormal, rough.b).a,
                           b |-> rough.b,
                           planePoints |-> found.neckPlanePoints,
                           searchP0 |-> found.searchP0,
                           searchP1 |-> found.searchP1],
             measurements |-> Put(measurements, "neck_axis",
                                  measurement("neck_axis", <<found.neckPlaneNormal,
                                                             found.neckPlaneOrigin>>)),
             lastSearch |-> found.locals]

\* calcNeckAxis, with rough the line FT.fitAxis3D returns
calcNeckAxis(rough, k, X) ==
    LET e == IF LookupError(neckElems) # "none" THEN LookupError(neckElems)
             ELSE LookupError(headElems)
        found == findNeckPlaneMinXSection(rough, k, X)
        fail(x) == [err |-> x, neckAxis |-> neckAxis, measurements |-> measurements,
                    lastSearch |-> lastSearch]
    IN IF e # "none" THEN fail(e)
       ELSE IF found.err # "none" THEN fail(found.err)
       ELSE [err |-> "none",
             neckAxis |-> [a |-> Line3D(found.neckPlaneNormal, found.neckPlaneOrigin).a,
                           b |-> found.neckPlaneOrigin,
                           planePoints |-> found.neckPlanePoints,
                           searchP0 |-> found.searchP0,
                           searchP1 |-> found.searchP1],
             measurements |-> Put(measurements, "neck_axis",
                                  measurement("neck_axis", <<found.neckPlaneNormal,
                                                             found.neckPlaneOrigin>>)),
             lastSearch |-> found.locals]

\* calcXYAxes(alignGF)
calcXYAxes(alignGF) ==
    IF GF = None \/ shaftAxis = None
    THEN [err |-> "AttributeError", xAxis |-> xAxis, yAxis |-> yAxis, GF |-> GF,
          shaftAligned |-> shaftAligned]
    ELSE
    LET nodeCoords == GF.nodes
        v1 == Sub(nodeCoords[condyleAlignmentNodes[1]],
                  nodeCoords[condyleAlignmentNodes[2]])
        z == shaftAxis.a
        y == norm(Cross(norm(v1), norm(z)))
        x == norm(Cross(y, norm(z)))
        CoM == calc_CoM_2D(GF)
    IN [err |-> "none",
        xAxis |-> Line3D(x, CoM),
        yAxis |-> Line3D(y, CoM),
        GF |-> IF alignGF THEN transformAffine(GF, CoM, x, y, z) ELSE GF,
        shaftAligned |-> IF alignGF THEN TRUE ELSE shaftAligned]

(***************************************************************************)
(* FemurMeasurements: the measurement methods.  Each gives the exception   *)
(* it ends with ("none" when it returns) and what it leaves in             *)
(* self.measurements, self.epicondylarAxis and self.neckAxis.              *)
(***************************************************************************)
Raise(e) == [err |-> e, measurements |-> measurements,
             epicondylarAxis |-> epicondylarAxis, neckAxis |-> neckAxis]
Store(name, m) == [err |-> "none", measurements |-> Put(measurements, name, m),
                   epicondylarAxis |-> epicondylarAxis, neckAxis |-> neckAxis]

\* the points lie in one plane: no four of them span a volume
Coplanar(ps) ==
    \A i, j, k, l \in 1..Len(ps) :
        Dot(Cross(Sub(ps[j], ps[i]), Sub(ps[k], ps[i])), Sub(ps[l], ps[i])) = 0

\* what FT.fitSphere may do: it fails with a fit error on a point cloud that
\* is not 3D enough, and returns a centre and a radius otherwise
SphereFits(ep) ==
    IF Coplanar(ep) THEN {[raise |-> "GeometricFitError"]}
    ELSE {[c |-> ep[1], r |-> r] : r \in {5}}

\* a variant of calcHeadDiameter that stores a record whatever the fit did
calcHeadDiameter_Unchecked(fit) ==
    IF LookupError(headElems) # "none" THEN Raise(LookupError(headElems))
    ELSE Store("head_diameter", [name |-> "head_diameter", value |-> "nan"])

\* calcHeadDiameter, with fit what FT.fitSphere does
calcHeadDiameter(fit) ==
    IF LookupError(headElems) # "none" THEN Raise(LookupError(headElems))
    ELSE IF "raise" \in DOMAIN fit THEN Raise(fit.raise)
    ELSE Store("head_diameter",
               [name |-> "head_diameter", value |-> fit.r * 2, centre |-> fit.c])

\* calcNeckShaftAngle: arccos(nom / denom), kept as (nom, denom)
calcNeckShaftAngle ==
    IF neckAxis = None \/ shaftAxis = None THEN Raise("AttributeError")
    ELSE LET nom == Dot(neckAxis.a, shaftAxis.a)
             denom == mag(neckAxis.a) * mag(shaftAxis.a)
         IN Store("neck_shaft_angle",
                  measurement("neck_shaft_angle", [arccos |-> <<nom, denom>>]))

\* calcNeckWidth, lines 368-395: the line search and the free search it runs
\* on a NeckMinXSectionFit of its own, with k / TDen the t and X the (P, N)
\* that fmin returns
NeckWidthSearch(k, X) ==
    LET neckEP == RegionEP(neckLongElems)
        axisPointsT == ProjT(neckAxis, neckEP)
        searchP0 == Line3D_eval(neckAxis, SeqMin(axisPointsT) + 5)
        searchP1 == Line3D_eval(neckAxis, SeqMax(axisPointsT) - 5)
        line == findNeckMinAlongLine(neckEP, searchP0, searchP1, k)
        free == findNeckMin(neckEP, X)
    IN IF Len(free.planePoints) = 0
       THEN [planePoints |-> line.planePoints, finalP |-> line.bestP]
       ELSE [planePoints |-> free.planePoints, finalP |-> free.finalP]

\* calcNeckWidth from line 399 on: the width of the footprint planePoints
NeckWidthOf(planePoints) ==
    LET zs == [i \in 1..Len(planePoints) |-> planePoints[i][3]]
    IN IF Len(planePoints) = 0 THEN Raise("ValueError")
       ELSE LET neckSup == planePoints[ArgMax(zs)]
                neckInf == planePoints[ArgMin(zs)]
                neckW == Sqrt(SumSq(Sub(neckSup, neckInf)))
            IN Store("neck_width",
                     [name |-> "neck_width", value |-> neckW,
                      centre |-> neckAxis.b,
                      interceptSup |-> neckSup, interceptInf |-> neckInf,
                      searchMin |-> neckAxis.searchP0,
                      searchMax |-> neckAxis.searchP1])

\* a variant of calcNeckWidth that attaches the footprint of its own searches
\* to the neck axis
calcNeckWidth_AttachSearch(fit) ==
    IF LookupError(neckLongElems) # "none" THEN Raise(LookupError(neckLongElems))
    ELSE IF neckAxis = None THEN Raise("AttributeError")
    ELSE IF "planePoints" \notin DOMAIN neckAxis THEN Raise("AttributeError")
    ELSE [NeckWidthOf(neckAxis.planePoints) EXCEPT
             !.neckAxis = [neckAxis EXCEPT
                              !.planePoints = NeckWidthSearch(fit.k, fit.X).planePoints]]

\* a variant of calcNeckWidth without line 397: it measures the footprint of
\* its own searches
calcNeckWidth_OwnSearch(fit) ==
    IF LookupError(neckLongElems) # "none" THEN Raise(LookupError(neckLongElems))
    ELSE IF neckAxis = None THEN Raise("AttributeError")
    ELSE IF "planePoints" \notin DOMAIN neckAxis THEN Raise("AttributeError")
    ELSE NeckWidthOf(NeckWidthSearch(fit.k, fit.X).planePoints)

\* calcNeckWidth, with fit the results of fmin in its two searches.  Line 397
\* replaces the footprint of the searches by the one calcNeckAxis attached to
\* the neck axis.
calcNeckWidth(fit) ==
    IF LookupError(neckLongElems) # "none" THEN Raise(LookupError(neckLongElems))
    ELSE IF neckAxis = None THEN Raise("AttributeError")
    ELSE IF "planePoints" \notin DOMAIN neckAxis THEN Raise("AttributeError")
    ELSE LET searched == NeckWidthSearch(fit.k, fit.X).planePoints
             planePoints == neckAxis.planePoints
         IN NeckWidthOf(planePoints)

\* calcDistanceFromPoint, squared
DistSqFromLine(line, p) == SumSq(Sub(p, Line3D_findClosest(line, p)))

\* calcFemoralAxisLength
calcFemoralAxisLength ==
    IF LookupError(headElems) # "none" THEN Raise(LookupError(headElems))
    ELSE IF neckAxis = None THEN Raise("AttributeError")
    ELSE IF LookupError(gTrocElems) # "none" THEN Raise(LookupError(gTrocElems))
    ELSE LET headEPi == RegionEPi(headElems)
             headEP == RegionEP(headElems)
             headD == [i \in 1..Len(headEP) |-> DistSqFromLine(neckAxis, headEP[i])]
             headIntercept == Line3D_findClosest(neckAxis, headEP[ArgMin(headD)])
             gTrocEPi == RegionEPi(gTrocElems)
             gTrocEP == RegionEP(gTrocElems)
             gTrocD == [i \in 1..Len(gTrocEP) |-> DistSqFromLine(neckAxis, gTrocEP[i])]
             gTrocIntercept == Line3D_findClosest(neckAxis, gTrocEP[ArgMin(gTrocD)])
         IN Store("femoral_axis_length",
                  [name |-> "femoral_axis_length",
                   value |-> Sqrt(SumSq(Sub(headIntercept, gTrocIntercept))),
                   headIntercept |-> <<headEPi[ArgMin(headD)], headIntercept>>,
                   gTrocIntercept |-> <<gTrocEPi[ArgMin(gTrocD)], gTrocIntercept>>])

\* a mutant of FemoralLength: the supporting points are the points of least
\* projection, whichever region lies higher
FemoralLength_ArgMinPoints(proxElems, distElems) ==
    LET proxEPi == RegionEPi(proxElems)
        proxEP == RegionEP(proxElems)
        distEPi == RegionEPi(distElems)
        distEP == RegionEP(distElems)
        proxP == ProjT(shaftAxis, proxEP)
        distP == ProjT(shaftAxis, distEP)
    IN [length |-> IF MeanGreater(proxP, distP)
                   THEN SeqMax(proxP) - SeqMin(distP)
                   ELSE SeqMax(distP) - SeqMin(proxP),
        proxPoint |-> <<proxEPi[ArgMin(proxP)], proxEP[ArgMin(proxP)]>>,
        distPoint |-> <<distEPi[ArgMin(distP)], distEP[ArgMin(distP)]>>]

\* the common body of calcFemoralLengthLong and calcFemoralLengthShort:
\* the extent along the shaft axis of a proximal and a distal region
FemoralLength(proxElems, distElems) ==
    LET proxEPi == RegionEPi(proxElems)
        proxEP == RegionEP(proxElems)
        distEPi == RegionEPi(distElems)
        distEP == RegionEP(distElems)
        proxP == ProjT(shaftAxis, proxEP)
        distP == ProjT(shaftAxis, distEP)
    IN IF MeanGreater(proxP, distP)
       THEN [length |-> SeqMax(proxP) - SeqMin(distP),
             proxPoint |-> <<proxEPi[ArgMax(proxP)], proxEP[ArgMax(proxP)]>>,
             distPoint |-> <<distEPi[ArgMin(distP)], distEP[ArgMin(distP)]>>]
       ELSE [length |-> SeqMax(distP) - SeqMin(proxP),
             proxPoint |-> <<proxEPi[ArgMin(proxP)], proxEP[ArgMin(proxP)]>>,
             distPoint |-> <<distEPi[ArgMax(distP)], distEP[ArgMax(distP)]>>]

\* calcFemoralLengthLong: head and medial condyle
calcFemoralLengthLong ==
    IF LookupError(headElems) # "none" THEN Raise(LookupError(headElems))
    ELSE IF LookupError(mCondElems) # "none" THEN Raise(LookupError(mCondElems))
    ELSE IF shaftAxis = None THEN Raise("AttributeError")
    ELSE LET r == FemoralLength(headElems, mCondElems)
         IN Store("length_long",
                  [name |-> "length_long", value |-> r.length,
                   headPoint |-> r.proxPoint, mCondPoint |-> r.distPoint])

\* calcFemoralLengthShort: greater trochanter and lateral condyle
calcFemoralLengthShort ==
    IF LookupError(gTrocElems) # "none" THEN Raise(LookupError(gTrocElems))
    ELSE IF LookupError(lCondElems) # "none" THEN Raise(LookupError(lCondElems))
    ELSE IF shaftAxis = None THEN Raise("AttributeError")
    ELSE LET r == FemoralLength(gTrocElems, lCondElems)
         IN Store("length_short",
                  [name |-> "length_short", value |-> r.length,
                   gTrocPoint |-> r.proxPoint, lCondPoint |-> r.distPoint])

\* calcSubtrochantericDiameter and calcMidshaftDiameter: a sphere through the
\* points of a ring of nodes
RingDiameter(name, fit) ==
    IF GF = None THEN Raise("AttributeError")
    ELSE IF "raise" \in DOMAIN fit THEN Raise(fit.raise)
    ELSE Store(name, [name |-> name, value |-> fit.r * 2, centre |-> fit.c])

\* calcSubtrochantericWidth and calcMidshaftWidth: the extent of a ring of
\* nodes along the x axis
RingWidth(name, nodes) ==
    IF GF = None \/ xAxis = None THEN Raise("AttributeError")
    ELSE LET ep == lineElementsEP(GF, nodes)
             projX == ProjT(xAxis, ep)
         IN Store(name, [name |-> name, value |-> SeqMax(projX) - SeqMin(projX),
                         p1 |-> ep[ArgMax(projX)], p2 |-> ep[ArgMin(projX)]])

calcSubtrochantericDiameter(fit) == RingDiameter("subtrochanteric_diameter", fit)
calcSubtrochantericWidth == RingWidth("subtrochanteric_width", subtrochanterNodes)
calcMidshaftDiameter(fit) == RingDiameter("midshaft_diameter", fit)
calcMidshaftWidth == RingWidth("midshaft_width", midshaftNodes)

\* calcEpicondylarWidthByNode: the distance of the two condyle alignment nodes
calcEpicondylarWidthByNode ==
    IF GF = None THEN Raise("AttributeError")
    ELSE IF EP = None THEN Raise("TypeError")
    ELSE LET nodeCoords == GF.nodes
             p1 == nodeCoords[condyleAlignmentNodes[1]]
             p2 == nodeCoords[condyleAlignmentNodes[2]]
             width == Sqrt(SumSq(Sub(p1, p2)))
             \* epTree.query([p1, p2])[1]: the nearest evaluation points
             p1i == ArgMin([i \in 1..Len(EP.arr) |-> SumSq(Sub(EP.arr[i], p1))])
             p2i == ArgMin([i \in 1..Len(EP.arr) |-> SumSq(Sub(EP.arr[i], p2))])
         IN [err |-> "none",
             measurements |-> Put(measurements, "epicondylar_width",
                                  [name |-> "epicondylar_width", value |-> width,
                                   p1 |-> <<p1i, p1>>, p2 |-> <<p2i, p2>>]),
             epicondylarAxis |-> Line3D(Sub(p1, p2), Mean(<<p1, p2>>)),
             neckAxis |-> neckAxis]

\* calcEpicondylarWidthCaliper: the most medial and the most lateral point
calcEpicondylarWidthCaliper ==
    IF ~shaftAligned THEN Raise("AttributeError")   \* self.alignToShaftAxis
    ELSE IF LookupError(lCondElems) # "none" THEN Raise(LookupError(lCondElems))
    ELSE IF LookupError(mCondElems) # "none" THEN Raise(LookupError(mCondElems))
    ELSE LET lCondEPi == RegionEPi(lCondElems)
             lCondEP == RegionEP(lCondElems)
             mCondEPi == RegionEPi(mCondElems)
             mCondEP == RegionEP(mCondElems)
             mi == ArgMax([i \in 1..Len(mCondEP) |-> mCondEP[i][1]])
             li == ArgMin([i \in 1..Len(lCondEP) |-> lCondEP[i][1]])
             medialPoint == mCondEP[mi]
             lateralPoint == lCondEP[li]
             axis == Line3D(Sub(medialPoint, lateralPoint),
                            Mean(<<medialPoint, lateralPoint>>))
             m == [name |-> "epicondylar_width",
                   value |-> Sqrt(SumSq(Sub(medialPoint, lateralPoint))),
                   p1 |-> <<mCondEPi[mi], medialPoint>>,
                   p2 |-> <<lCondEPi[li], lateralPoint>>]
         IN [err |-> "none",
             measurements |-> Put(Put(measurements, "epicondylar_width", m),
                                  "epicondylar_axis",
                                  measurement("epicondylar_axis", <<axis.a, axis.b>>)),
             epicondylarAxis |-> axis, neckAxis |-> neckAxis]

\* distance.cdist(A, B, 'euclidean'), row after row as argmax() reads it; a
\* distance is kept by its square
cdist(A, B) ==
    [n \in 1..(Len(A) * Len(B)) |->
        SumSq(Sub(A[((n - 1) \div Len(B)) + 1], B[((n - 1) % Len(B)) + 1]))]

\* calcEpicondylarWidthDistance: the most distant pair of a medial and a
\* lateral condyle point.  di and dj are floats (scipy.floor): floatIndex says
\* whether the numpy at hand takes a float as an index or raises IndexError
calcEpicondylarWidthDistance(floatIndex) ==
    IF ~shaftAligned THEN Raise("AttributeError")   \* self.alignToShaftAxis
    ELSE IF LookupError(lCondElems) # "none" THEN Raise(LookupError(lCondElems))
    ELSE IF LookupError(mCondElems) # "none" THEN Raise(LookupError(mCondElems))
    ELSE LET lCondEPi == RegionEPi(lCondElems)
             lCondEP == RegionEP(lCondElems)
             mCondEPi == RegionEPi(mCondElems)
             mCondEP == RegionEP(mCondElems)
             d == cdist(mCondEP, lCondEP)
             shape0 == Len(mCondEP)
         IN IF Len(d) = 0 THEN Raise("ValueError")   \* argmax of an empty array
            ELSE
            LET dInd == ArgMax(d) - 1
                di == dInd \div shape0
                dj == dInd - di * shape0
            IN IF ~floatIndex \/ di >= Len(mCondEP) \/ dj >= Len(lCondEP)
               THEN Raise("IndexError")
               ELSE
               LET medialPoint == mCondEP[di + 1]
                   lateralPoint == lCondEP[dj + 1]
                   axis == Line3D(Sub(medialPoint, lateralPoint),
                                  Mean(<<medialPoint, lateralPoint>>))
                   m == [name |-> "epicondylar_width",
                         value |-> Sqrt(SumSq(Sub(medialPoint, lateralPoint))),
                         p1 |-> <<mCondEPi[di + 1], medialPoint>>,
                         p2 |-> <<lCondEPi[dj + 1], lateralPoint>>]
               IN [err |-> "none",
                   measurements |-> Put(Put(measurements, "epicondylar_width", m),
                                        "epicondylar_axis",
                                        measurement("epicondylar_axis",
                                                    <<axis.a, axis.b>>)),
                   epicondylarAxis |-> axis, neckAxis |-> neckAxis]

\* a mutant: calcEpicondylarWidth dispatching to the caliper variant
calcEpicondylarWidth_Caliper == calcEpicondylarWidthCaliper

\* calcEpicondylarWidth
calcEpicondylarWidth == calcEpicondylarWidthByNode

\* calcAnteversion: the angle, in the plane normal to the shaft axis, between
\* the posterior condylar axis and the neck axis, kept as the two projections
calcAnteversion ==
    IF shaftAxis = None THEN Raise("AttributeError")
    ELSE IF LookupError(lCondElems) # "none" THEN Raise(LookupError(lCondElems))
    ELSE IF LookupError(mCondElems) # "none" THEN Raise(LookupError(mCondElems))
    ELSE IF yAxis = None \/ neckAxis = None THEN Raise("AttributeError")
    ELSE LET px == norm(Cross(shaftAxis.a, <<1, 0, 0>>))
             py == norm(Cross(shaftAxis.a, px))
             project2Plane2D(v) == <<Dot(v, px), Dot(v, py)>>
             lcEP == RegionEP(lCondElems)
             mcEP == RegionEP(mCondElems)
             mcP == mcEP[ArgMin(ProjT(yAxis, mcEP))]
             lcP == lcEP[ArgMin(ProjT(yAxis, lcEP))]
             cv == Line3D(Sub(mcP, lcP), Mean(<<mcP, lcP>>))
             v1 == project2Plane2D(cv.a)
             v2 == project2Plane2D(neckAxis.a)
         IN Store("anteversion_angle",
                  [name |-> "anteversion_angle", value |-> [angleDeg |-> <<v1, v2>>],
                   posteriorCondyleAxis |-> cv])

(***************************************************************************)
(* calcMeasurements: the sweep                                             *)
(***************************************************************************)
\* the measurements in the order calcMeasurements computes them
calcMeasurementsOrder ==
    <<"head_diameter", "neck_width", "neck_shaft_angle", "femoral_axis_length",
      "length_long", "length_short", "subtrochanteric_diameter",
      "subtrochanteric_width", "midshaft_diameter", "midshaft_width",
      "epicondylar_width", "anteversion_angle">>

\* what the solvers may return to a measurement method: a sphere fit, or the
\* results of fmin in the searches of calcNeckWidth (None when it calls no
\* solver or fails before the call)
FitsFor(name) ==
    IF name = "neck_width" /\ LookupError(neckLongElems) = "none" /\ neckAxis # None
        THEN {[k |-> k, X |-> X] : k \in LineTs, X \in FreePlanes}
    ELSE
    IF name = "head_diameter" /\ LookupError(headElems) = "none"
        THEN SphereFits(RegionEP(headElems))
    ELSE IF name = "subtrochanteric_diameter" /\ GF # None
        THEN SphereFits(lineElementsEP(GF, subtrochanterNodes))
    ELSE IF name = "midshaft_diameter" /\ GF # None
        THEN SphereFits(lineElementsEP(GF, midshaftNodes))
    ELSE {None}

\* the method calcMeasurements calls for a measurement
RunMethod(name, fit) ==
    CASE name = "head_diameter" -> calcHeadDiameter(fit)
      [] name = "neck_width" -> calcNeckWidth(fit)
      [] name = "neck_shaft_angle" -> calcNeckShaftAngle
      [] name = "femoral_axis_length" -> calcFemoralAxisLength
      [] name = "length_long" -> calcFemoralLengthLong
      [] name = "length_short" -> calcFemoralLengthShort
      [] name = "subtrochanteric_diameter" -> calcSubtrochantericDiameter(fit)
      [] name = "subtrochanteric_width" -> calcSubtrochantericWidth
      [] name = "midshaft_diameter" -> calcMidshaftDiameter(fit)
      [] name = "midshaft_width" -> calcMidshaftWidth
      [] name = "epicondylar_width" -> calcEpicondylarWidth
      [] name = "anteversion_angle" -> calcAnteversion

(***************************************************************************)
(* saveMeasurements / loadMeasurements                                     *)
(***************************************************************************)
\* the keys a mapping may hold, in the order the pickle lists them
AllNames == <<"shaft_axis", "neck_axis">> \o calcMeasurementsOrder
                \o <<"epicondylar_axis">>

RECURSIVE PickleFrom(_, _)
PickleFrom(ms, i) ==
    IF i > Len(AllNames) THEN <<>>
    ELSE (IF AllNames[i] \in DOMAIN ms THEN <<<<AllNames[i], ms[AllNames[i]]>>>>
          ELSE <<>>) \o PickleFrom(ms, i + 1)

\* pickle.dump(d, f, protocol=2): the items of the dict, one after the other
pickle_dump(ms) == PickleFrom(ms, 1)

\* pickle.load(f): the dict of the items
pickle_load(data) ==
    [k \in {data[i][1] : i \in 1..Len(data)} |->
        data[CHOOSE i \in 1..Len(data) : data[i][1] = k][2]]

\* loadMeasurements(filename)
loadMeasurements ==
    IF file = None
    THEN [err |-> "IOError", measurements |-> measurements,
          shaftAxis |-> shaftAxis, neckAxis |-> neckAxis]
    ELSE
    LET ms == pickle_load(file.data)
    IN IF "shaft_axis" \notin DOMAIN ms
       THEN [err |-> "KeyError", measurements |-> ms,
             shaftAxis |-> shaftAxis, neckAxis |-> neckAxis]
       ELSE
       LET sa == Line3D(ms["shaft_axis"].value[1], ms["shaft_axis"].value[2])
       IN IF "neck_axis" \notin DOMAIN ms
          THEN [err |-> "KeyError", measurements |-> ms,
                shaftAxis |-> sa, neckAxis |-> neckAxis]
          ELSE [err |-> "none", measurements |-> ms, shaftAxis |-> sa,
                neckAxis |-> Line3D(ms["neck_axis"].value[1],
                                    ms["neck_axis"].value[2])]

(***************************************************************************)
(* The engine as a state machine.                                          *)
(***************************************************************************)
\* a mutant of ctorSteps: the neck axis is computed before the shaft axis
ctorSteps_NeckFirst == <<"_evaluateGF", "calcNeckAxis", "calcShaftAxis", "calcXYAxes">>

\* the calls __init__ makes when it is given a field, in order
ctorSteps == <<"_evaluateGF", "calcShaftAxis", "calcNeckAxis", "calcXYAxes">>

\* the file the caller names when the engine is constructed: not there yet, or
\* saved before by an engine that was constructed without a field
SavedFiles == {None, [data |-> pickle_dump(<<>>)]}

\* __init__ up to the test of self.GF: the attributes are initialised, the
\* field is the engine's own copy of the caller's, or None
InitFrom(fields) ==
    /\ callerGF \in fields
    /\ GF = IF callerGF = None THEN None ELSE deepcopy(callerGF, 1)
    /\ other = None
    /\ EP = None
    /\ EPMap = None
    /\ neckAxis = None
    /\ shaftAxis = None
    /\ xAxis = None
    /\ yAxis = None
    /\ epicondylarAxis = None
    /\ measurements = <<>>
    /\ shaftAligned = FALSE
    /\ file \in SavedFiles
    /\ pc = IF GF = None THEN "ready" ELSE "ctor"
    /\ ip = 1
    /\ sweepRan = {}
    /\ err = "none"
    /\ lastOp = "__init__"
    /\ lastSearch = None
    /\ nCalls = 0
    /\ pl = None
    /\ writer = None /\ inpFile = None /\ readOut = None

\* the caller passes a femur field, or none
Init == InitFrom(Fields \cup {None})

\* the caller passes a femur field with a flat ring or a flat head
InitFlat == InitFrom(FlatFields)

\* the method is the next call of __init__, or the caller calls it on the
\* constructed engine
Calling(method) ==
    \/ pc = "ctor" /\ ctorSteps[ip] = method
    \/ pc = "ready" /\ nCalls < MaxCalls /\ method # "_evaluateGF"

\* where control is after the call ended with e: an exception in __init__
\* leaves no engine, __init__ goes on with its next call, a call on the
\* engine comes back to the caller
Return(method, e) ==
    /\ err' = e
    /\ lastOp' = method
    /\ IF pc = "ctor"
       THEN /\ nCalls' = nCalls
            /\ IF e # "none" THEN pc' = "dead" /\ ip' = ip
               ELSE IF ip = Len(ctorSteps) THEN pc' = "ready" /\ ip' = 1
               ELSE pc' = "ctor" /\ ip' = ip + 1
       ELSE /\ nCalls' = nCalls + 1
            /\ pc' = "ready"
            /\ ip' = 1

EvaluateGF ==
    /\ UNCHANGED <<callerGF, other, pl, inpVars>>
    /\ Calling("_evaluateGF")
    /\ EP' = Arr(evaluate_geometric_field(GF))
    /\ EPMap' = Dict(getElementPointI(GF))
    /\ Return("_evaluateGF", "none")
    /\ UNCHANGED <<GF, shaftAxis, neckAxis, xAxis, yAxis, epicondylarAxis,
                   measurements, shaftAligned, file, sweepRan, lastSearch>>

CalcShaftAxis ==
    /\ UNCHANGED <<callerGF, other, pl, inpVars>>
    /\ Calling("calcShaftAxis")
    /\ \E fit \in IF LookupError(shaftElems) = "none"
                  THEN ShaftFits(RegionEP(shaftElems)) ELSE {None} :
          LET r == calcShaftAxis(fit)
          IN /\ shaftAxis' = r.shaftAxis
             /\ measurements' = r.measurements
             /\ Return("calcShaftAxis", r.err)
    /\ UNCHANGED <<GF, EP, EPMap, neckAxis, xAxis, yAxis, epicondylarAxis,
                   shaftAligned, file, sweepRan, lastSearch>>

CalcNeckAxis ==
    /\ UNCHANGED <<callerGF, other, pl, inpVars>>
    /\ Calling("calcNeckAxis")
    /\ \E rough \in IF LookupError(neckElems) = "none"
                    THEN NeckFits(RegionEP(neckElems)) ELSE {None} :
       \E k \in LineTs :
       \E X \in FreePlanes :
          LET r == calcNeckAxis(rough, k, X)
          IN /\ neckAxis' = r.neckAxis
             /\ measurements' = r.measurements
             /\ lastSearch' = r.lastSearch
             /\ Return("calcNeckAxis", r.err)
    /\ UNCHANGED <<GF, EP, EPMap, shaftAxis, xAxis, yAxis, epicondylarAxis,
                   shaftAligned, file, sweepRan>>

CalcXYAxes ==
    /\ Calling("calcXYAxes")
    /\ \E alignGF \in IF pc = "ctor" THEN {FALSE} ELSE BOOLEAN :
          LET r == calcXYAxes(alignGF)
          IN /\ xAxis' = r.xAxis
             /\ yAxis' = r.yAxis
             /\ GF' = r.GF
             \* GF.transformAffine changes the object, whoever holds it
             /\ pl' = pl
             /\ UNCHANGED inpVars
             /\ callerGF' = IF SameObject(callerGF, r.GF) THEN r.GF ELSE callerGF
             /\ other' = IF other # None /\ SameObject(other.GF, r.GF)
                          THEN [other EXCEPT !.GF = r.GF] ELSE other
             /\ shaftAligned' = r.shaftAligned
             /\ Return("calcXYAxes", r.err)
    /\ UNCHANGED <<EP, EPMap, shaftAxis, neckAxis, epicondylarAxis, measurements,
                   file, sweepRan, lastSearch>>

\* calcMeasurements, one measurement method at a time: an exception of a
\* method ends the sweep, the last method's return ends it
CalcMeasurementsStep ==
    /\ \/ pc = "ready" /\ nCalls < MaxCalls
       \/ pc = "sweep"
    /\ LET i == IF pc = "sweep" THEN ip ELSE 1
           name == calcMeasurementsOrder[i]
       IN \E fit \in FitsFor(name) :
             LET r == RunMethod(name, fit)
             IN /\ measurements' = r.measurements
                /\ epicondylarAxis' = r.epicondylarAxis
                /\ neckAxis' = r.neckAxis
                /\ err' = r.err
                /\ sweepRan' = (IF i = 1 THEN {} ELSE sweepRan) \cup {name}
                /\ IF r.err # "none" \/ i = Len(calcMeasurementsOrder)
                   THEN pc' = "ready" /\ ip' = 1
                   ELSE pc' = "sweep" /\ ip' = i + 1
    /\ lastOp' = "calcMeasurements"
    /\ UNCHANGED <<callerGF, other, pl, inpVars>>
    /\ nCalls' = IF pc = "ready" THEN nCalls + 1 ELSE nCalls
    /\ UNCHANGED <<GF, EP, EPMap, shaftAxis, xAxis, yAxis, shaftAligned,
                   file, lastSearch>>

SaveMeasurements ==
    /\ UNCHANGED <<callerGF, other, pl, inpVars>>
    /\ Calling("saveMeasurements")
    /\ file' = [data |-> pickle_dump(measurements)]
    /\ Return("saveMeasurements", "none")
    /\ UNCHANGED <<GF, EP, EPMap, shaftAxis, neckAxis, xAxis, yAxis,
                   epicondylarAxis, measurements, shaftAligned, sweepRan,
                   lastSearch>>

LoadMeasurements ==
    /\ UNCHANGED <<callerGF, other, pl, inpVars>>
    /\ Calling("loadMeasurements")
    /\ LET r == loadMeasurements
       IN /\ measurements' = r.measurements
          /\ shaftAxis' = r.shaftAxis
          /\ neckAxis' = r.neckAxis
          /\ Return("loadMeasurements", r.err)
    /\ UNCHANGED <<GF, EP, EPMap, xAxis, yAxis, epicondylarAxis, shaftAligned,
                   file, sweepRan, lastSearch>>

\* the caller constructs a second engine from the same field object, right
\* after the first: the solvers being deterministic, its __init__ leaves the
\* attributes the first engine's __init__ left, in objects of its own
NewInstance ==
    /\ pc = "ready" /\ nCalls = 0 /\ nCalls < MaxCalls
    /\ callerGF # None /\ other = None
    /\ other' = [GF |-> deepcopy(callerGF, 2), EP |-> EP, EPMap |-> EPMap,
                  shaftAxis |-> shaftAxis, neckAxis |-> neckAxis,
                  xAxis |-> xAxis, yAxis |-> yAxis,
                  epicondylarAxis |-> epicondylarAxis,
                  measurements |-> measurements, shaftAligned |-> shaftAligned]
    /\ nCalls' = nCalls + 1
    /\ lastOp' = "__init__"
    /\ err' = "none"
    /\ UNCHANGED <<GF, EP, EPMap, shaftAxis, neckAxis, xAxis, yAxis,
                   epicondylarAxis, measurements, shaftAligned, file, pc, ip,
                   sweepRan, lastSearch, callerGF, pl, inpVars>>

Next ==
    \/ NewInstance
    \/ EvaluateGF
    \/ CalcShaftAxis
    \/ CalcNeckAxis
    \/ CalcXYAxes
    \/ CalcMeasurementsStep
    \/ SaveMeasurements
    \/ LoadMeasurements

Spec == Init /\ [][Next]_vars

\* the engine on the fields whose sphere fits are degenerate
SpecFlat == InitFlat /\ [][Next]_vars

(***************************************************************************)
(* projectClosePoints on its own: a plane, a point set and a distance are  *)
(* drawn, projected, and the result is projected again.                    *)
(***************************************************************************)
\* no engine: the attributes and the caller's position have no value
EngineIdle ==
    /\ GF = None /\ EP = None /\ EPMap = None /\ shaftAxis = None
    /\ neckAxis = None /\ xAxis = None /\ yAxis = None /\ epicondylarAxis = None
    /\ measurements = <<>> /\ shaftAligned = FALSE /\ file = None
    /\ pc = "idle" /\ ip = 1 /\ sweepRan = {} /\ err = "none"
    /\ lastOp = "none" /\ lastSearch = None /\ nCalls = 0
    /\ callerGF = None /\ other = None

GridPoints == {<<x, 0, z>> : x \in 0..MaxCoord, z \in 0..1}
PlaneNormals == {<<s * m, 0, 0>> : s \in {1, -1}, m \in 1..MaxCoord}
                    \cup {<<0, 0, s * m>> : s \in {1, -1}, m \in 1..MaxCoord}
PointSets == UNION {[1..n -> GridPoints] : n \in 0..MaxPts}

PlaneInit ==
    /\ EngineIdle
    /\ writer = None /\ inpFile = None /\ readOut = None
    /\ \E N \in PlaneNormals, P \in {<<0, 0, 0>>, <<1, 0, 1>>},
          data \in PointSets, maxDist \in 1..2 :
          pl = [stage |-> "drawn", plane |-> Plane3D(N, P), P |-> data,
                maxDist |-> maxDist]

\* closeProjections, closeIndices = plane.projectClosePoints(P, maxDist)
Project ==
    /\ pl.stage = "drawn"
    /\ pl' = [stage |-> "projected", plane |-> pl.plane, P |-> pl.P,
              maxDist |-> pl.maxDist,
              out |-> projectClosePoints(pl.plane, pl.P, pl.maxDist)]
    /\ UNCHANGED <<engineVars, inpVars>>

\* plane.projectClosePoints(closeProjections, maxDist)
Reproject ==
    /\ pl.stage = "projected"
    /\ pl' = [stage |-> "reprojected", plane |-> pl.plane, P |-> pl.P,
              maxDist |-> pl.maxDist, out |-> pl.out,
              again |-> projectClosePoints(pl.plane, pl.out.points, pl.maxDist)]
    /\ UNCHANGED <<engineVars, inpVars>>

PlaneNext ==
    \/ Project
    \/ Reproject

PlaneSpec == PlaneInit /\ [][PlaneNext]_vars

(***************************************************************************)
(* The length and width methods on their own: an engine that is aligned to *)
(* its shaft axis, with drawn evaluation points in the regions the methods *)
(* read, is handed one call.                                               *)
(***************************************************************************)
\* the points a region may hold
ProxPoints == {<<0, 0, 12>>, <<1, 0, -10>>, <<1, 0, -30>>}
MedialPoints == {<<1, 0, -9>>, <<3, 0, -8>>}
LateralPoints == {<<-1, 0, -9>>, <<-2, 0, -8>>}
RegionSeqs(S, n) == UNION {[1..k -> S] : k \in 1..n}

\* the elements of the regions the methods read
RegionElems == {1, 5, 6, 7}

\* self.EP as _evaluateGF leaves it: the points of the elements 1, 5, 6, 7,
\* one element after the other
RegionPoints(head, gTroc, mCond, lCond) == head \o gTroc \o mCond \o lCond

\* self.EPMap as _evaluateGF leaves it: element -> the indices of its points
RegionMap(head, gTroc, mCond, lCond) ==
    LET from(a, n) == [j \in 1..n |-> a + j]
    IN [e \in RegionElems |->
          CASE e = 1 -> from(0, Len(head))
            [] e = 5 -> from(Len(head), Len(gTroc))
            [] e = 6 -> from(Len(head) + Len(gTroc), Len(mCond))
            [] e = 7 -> from(Len(head) + Len(gTroc) + Len(mCond), Len(lCond))]

RegionInit ==
    /\ \E prox \in RegionSeqs(ProxPoints, MaxPts),
          mCond \in RegionSeqs(MedialPoints, MaxRegion),
          lCond \in RegionSeqs(LateralPoints, MaxRegion) :
          /\ EP = Arr(RegionPoints(prox, prox, mCond, lCond))
          /\ EPMap = Dict(RegionMap(prox, prox, mCond, lCond))
    /\ GF = [obj |-> 1, elems |-> RegionElems, nodes |-> <<>>]
    /\ callerGF = None /\ other = None
    /\ shaftAxis = Line3D(<<0, 0, 1>>, <<0, 0, 0>>)
    /\ shaftAligned = TRUE
    /\ neckAxis = None /\ xAxis = None /\ yAxis = None /\ epicondylarAxis = None
    /\ measurements = <<>> /\ file = None
    /\ pc = "ready" /\ ip = 1 /\ sweepRan = {} /\ err = "none"
    /\ lastOp = "__init__" /\ lastSearch = None /\ nCalls = 0
    /\ pl = None
    /\ writer = None /\ inpFile = None /\ readOut = None

\* the caller calls a measurement method on the engine; r is what it leaves
RegionCall(method, r) ==
    /\ measurements' = r.measurements
    /\ epicondylarAxis' = r.epicondylarAxis
    /\ err' = r.err
    /\ lastOp' = method
    /\ nCalls' = nCalls + 1
    /\ UNCHANGED <<GF, EP, EPMap, shaftAxis, neckAxis, xAxis, yAxis, shaftAligned,
                   file, pc, ip, sweepRan, lastSearch, callerGF, other, pl, inpVars>>

CalcFemoralLengthLong ==
    /\ pc = "ready" /\ nCalls = 0
    /\ RegionCall("calcFemoralLengthLong", calcFemoralLengthLong)

CalcFemoralLengthShort ==
    /\ pc = "ready" /\ nCalls = 0
    /\ RegionCall("calcFemoralLengthShort", calcFemoralLengthShort)

CalcEpicondylarWidthDistance ==
    /\ pc = "ready" /\ nCalls = 0
    /\ \E floatIndex \in BOOLEAN :
          RegionCall("calcEpicondylarWidthDistance",
                     calcEpicondylarWidthDistance(floatIndex))

RegionNext ==
    \/ CalcFemoralLengthLong
    \/ CalcFemoralLengthShort
    \/ CalcEpicondylarWidthDistance

RegionSpec == RegionInit /\ [][RegionNext]_vars

(***************************************************************************)
(* The INP writer and reader (gias2/mesh/inp.py).  A text is a sequence of *)
(* characters and a file a sequence of lines, each ending with a newline.  *)
(* A coordinate is a decimal number [neg, whole, frac]: a sign, an integer *)
(* part and the digits after the point.                                    *)
(***************************************************************************)
\* the element of a set of one element; in Only({e : v \in {x}}) the value x
\* is computed once and named v in e
Only(S) == CHOOSE r \in S : TRUE

COMMENTCHARS == <<"*", "*">>

ELEMNODES ==
    [t \in {<<"C", "3", "D", "8", "R">>, <<"R", "3", "D", "3">>,
            <<"R", "3", "D", "4">>, <<"C", "3", "D", "4">>,
            <<"T", "3", "D", "2">>, <<"S", "3">>, <<"S", "4">>} |->
        CASE t = <<"C", "3", "D", "8", "R">> -> 8
          [] t = <<"R", "3", "D", "3">> -> 3
          [] t = <<"R", "3", "D", "4">> -> 4
          [] t = <<"C", "3", "D", "4">> -> 4
          [] t = <<"T", "3", "D", "2">> -> 2
          [] t = <<"S", "3">> -> 3
          [] t = <<"S", "4">> -> 4]

DigitChars == <<"0", "1", "2", "3", "4", "5", "6", "7", "8", "9">>
LowerChars == <<"a", "b", "c", "d", "e", "f", "g", "h", "i", "j", "k", "l", "m",
                "n", "o", "p", "q", "r", "s", "t", "u", "v", "w", "x", "y", "z">>
UpperChars == <<"A", "B", "C", "D", "E", "F", "G", "H", "I", "J", "K", "L", "M",
                "N", "O", "P", "Q", "R", "S", "T", "U", "V", "W", "X", "Y", "Z">>
Whitespace == {" ", "\n", "\t"}

IsDigit(c) == \E i \in 1..10 : DigitChars[i] = c
DigitOf(c) == (CHOOSE i \in 1..10 : DigitChars[i] = c) - 1

\* str(n) of an integer n >= 0
RECURSIVE str(_)
str(n) == IF n < 10 THEN <<DigitChars[n + 1]>>
          ELSE str(n \div 10) \o <<DigitChars[(n % 10) + 1]>>

\* text right-aligned in a field of at least width characters
PadLeft(width, text) == [i \in 1..(width - Len(text)) |-> " "] \o text

\* '{:6d}'.format(i) and '{:<width>}'.format(i) of an integer i >= 0
FormatInt(width, i) == PadLeft(width, str(i))

\* digits plus one in the last place: the new digits and the carry out
IncDigits(ds) ==
    LET below9 == {i \in 1..Len(ds) : ds[i] < 9}
    IN IF below9 = {} THEN [d |-> [i \in 1..Len(ds) |-> 0], carry |-> 1]
       ELSE Only({[d |-> [i \in 1..Len(ds) |->
                            IF i < last THEN ds[i]
                            ELSE IF i = last THEN ds[i] + 1 ELSE 0],
                   carry |-> 0] :
                     last \in {CHOOSE i \in below9 : \A j \in below9 : j <= i}})

\* the digits after the point, to the precision of the file
nodeCoordDecimals == 10
\* the width of a coordinate in the file
nodeCoordWidth == 16
\* the widths of the counters and element nodes when autoFormat is off
nodeCounterWidth == 6
elemCounterWidth == 6
elemNodeWidth == 10

\* the digits after the point and one more, rounded to the decimals of the file
RoundDigits(whole, padded) ==
    IF padded[nodeCoordDecimals + 1] >= 5
    THEN Only({[whole |-> whole + up.carry, frac |-> up.d] :
                  up \in {IncDigits(SubSeq(padded, 1, nodeCoordDecimals))}})
    ELSE [whole |-> whole, frac |-> SubSeq(padded, 1, nodeCoordDecimals)]

\* x rounded to the decimals of '{:16.10f}' (no input lies on a tie)
RoundCoord(x) ==
    Only({[neg |-> x.neg, whole |-> r.whole, frac |-> r.frac] :
            r \in {RoundDigits(x.whole,
                      x.frac \o [i \in 1..(nodeCoordDecimals + 1 - Len(x.frac)) |-> 0])}})

\* '{:16.10f}'.format(x)
FormatCoord(x) ==
    Only({PadLeft(nodeCoordWidth,
                  (IF x.neg THEN <<"-">> ELSE <<>>) \o str(r.whole) \o <<".">>
                     \o [i \in 1..Len(r.frac) |-> DigitChars[r.frac[i] + 1]]) :
            r \in {RoundCoord(x)}})

\* sep.join(words)
RECURSIVE join(_, _)
join(sep, words) ==
    IF Len(words) = 0 THEN <<>>
    ELSE IF Len(words) = 1 THEN words[1]
    ELSE words[1] \o sep \o join(sep, Tail(words))

Max(S) == CHOOSE m \in S : \A n \in S : n <= m
Min(S) == CHOOSE m \in S : \A n \in S : m <= n
Range(f) == {f[i] : i \in DOMAIN f}

\* InpWriter._autoFormat: the widths of the three integer formats
autoFormatWidths(meshes) ==
    Only({[nodeCounter |-> Len(str(maxNodes)) + 1,
           elemCounter |-> Len(str(maxElems)) + 1,
           elemNode |-> Len(str(maxNodes)) + 1] :
            maxNodes \in {Max(UNION {Range(m.nodeNumbers) : m \in Range(meshes)})},
            maxElems \in {Max(UNION {Range(m.elemNumbers) : m \in Range(meshes)})}})

\* InpWriter._getNodeLine
getNodeLine(fmt, i, node) ==
    Only({join(<<",", " ">>, words) \o <<"\n">> :
            words \in {<<FormatInt(fmt.nodeCounter, i)>>
                          \o [k \in 1..Len(node) |-> FormatCoord(node[k])]}})

\* InpWriter._getElemLine
getElemLine(fmt, i, elem) ==
    Only({join(<<",", " ">>, words) \o <<"\n">> :
            words \in {<<FormatInt(fmt.elemCounter, i)>>
                          \o [k \in 1..Len(elem) |-> FormatInt(fmt.elemNode, elem[k])]}})

\* '*NODE, NSET={}\n'.format(name)
nodeHeaderLine(name) ==
    <<"*", "N", "O", "D", "E", ",", " ", "N", "S", "E", "T", "=">> \o name
       \o <<"\n">>

\* '*ELEMENT, TYPE={}, ELSET={}\n'.format(elemType, name)
elemHeaderLine(elemType, name) ==
    <<"*", "E", "L", "E", "M", "E", "N", "T", ",", " ", "T", "Y", "P", "E", "=">>
       \o elemType \o <<",", " ", "E", "L", "S", "E", "T", "=">> \o name
       \o <<"\n">>

\* the lines write() writes for one mesh
MeshLines(fmt, mesh) ==
    <<nodeHeaderLine(mesh.name)>>
       \o [ni \in 1..Len(mesh.nodes) |->
             getNodeLine(fmt, mesh.nodeNumbers[ni], mesh.nodes[ni])]
       \o <<COMMENTCHARS \o <<"\n">>>>
       \o <<elemHeaderLine(mesh.elemType, mesh.name)>>
       \o [ei \in 1..Len(mesh.elems) |->
             getElemLine(fmt, mesh.elemNumbers[ei], mesh.elems[ei])]
       \o <<COMMENTCHARS \o <<"\n">>>>

\* a mutant of AllMeshLines: the mesh added last is written first
RECURSIVE AllMeshLines_LastFirst(_, _)
AllMeshLines_LastFirst(fmt, meshes) ==
    IF meshes = <<>> THEN <<>>
    ELSE AllMeshLines_LastFirst(fmt, Tail(meshes)) \o MeshLines(fmt, meshes[1])

\* write(), lines 341-358: the lines of the meshes, in the order of the list
RECURSIVE AllMeshLines(_, _)
AllMeshLines(fmt, meshes) ==
    IF meshes = <<>> THEN <<>>
    ELSE MeshLines(fmt, meshes[1]) \o AllMeshLines(fmt, Tail(meshes))

\* InpWriter.write(): the file it leaves, or the exception it raises
write(w) ==
    IF Len(w.meshes) = 0 THEN [raise |-> "RuntimeError"]
    ELSE Only({[lines |-> <<COMMENTCHARS \o <<"\n">>, COMMENTCHARS \o <<"\n">>>>
                             \o AllMeshLines(fmt, w.meshes)] :
                  fmt \in {IF w.autoFormat THEN autoFormatWidths(w.meshes)
                           ELSE [nodeCounter |-> nodeCounterWidth,
                                 elemCounter |-> elemCounterWidth,
                                 elemNode |-> elemNodeWidth]}})

\* sub in text
Contains(text, sub) ==
    \E i \in 1..(Len(text) - Len(sub) + 1) : SubSeq(text, i, i + Len(sub) - 1) = sub

\* text.strip()
strip(text) ==
    Only({IF inked = {} THEN <<>> ELSE SubSeq(text, Min(inked), Max(inked)) :
            inked \in {{i \in 1..Len(text) : text[i] \notin Whitespace}}})

\* the pieces of text between the places cuts, in order
Pieces(text, cuts) ==
    [k \in 1..(Cardinality(cuts) - 1) |->
        Only({SubSeq(text, from + 1, Min({j \in cuts : j > from}) - 1) :
                from \in {i \in cuts : Cardinality({j \in cuts : j < i}) = k - 1}})]

\* text.split(c)
split(text, c) ==
    Only({Pieces(text, cuts) :
            cuts \in {{0, Len(text) + 1} \cup {i \in 1..Len(text) : text[i] = c}}})

\* text.upper()
upper(text) ==
    [i \in 1..Len(text) |->
        IF \E k \in 1..26 : LowerChars[k] = text[i]
        THEN UpperChars[CHOOSE k \in 1..26 : LowerChars[k] = text[i]]
        ELSE text[i]]

\* the number the digits ds[1..n] stand for
RECURSIVE NatOf(_, _)
NatOf(ds, n) == IF n = 0 THEN 0 ELSE NatOf(ds, n - 1) * 10 + DigitOf(ds[n])

AllDigits(text) == \A i \in 1..Len(text) : IsDigit(text[i])

\* a leading sign and what follows it
Signed(text) ==
    IF text # <<>> /\ text[1] \in {"-", "+"}
    THEN [neg |-> text[1] = "-", rest |-> Tail(text)]
    ELSE [neg |-> FALSE, rest |-> text]

\* int(text): the integer, or ValueError
int(text) ==
    Only({IF s.rest # <<>> /\ AllDigits(s.rest)
          THEN [v |-> IF s.neg THEN 0 - NatOf(s.rest, Len(s.rest))
                      ELSE NatOf(s.rest, Len(s.rest))]
          ELSE [raise |-> "ValueError"] :
            s \in {Signed(strip(text))}})

\* float of a sign neg and the digits before and after the point
FloatOf(neg, parts) ==
    LET whole == parts[1]
        frac == IF Len(parts) = 2 THEN parts[2] ELSE <<>>
    IN IF /\ Len(parts) <= 2
          /\ Len(whole) + Len(frac) > 0
          /\ AllDigits(whole) /\ AllDigits(frac)
       THEN [v |-> [neg |-> neg, whole |-> NatOf(whole, Len(whole)),
                    frac |-> [i \in 1..Len(frac) |-> DigitOf(frac[i])]]]
       ELSE [raise |-> "ValueError"]

\* float(text) of a decimal without exponent: the number, or ValueError
float(text) ==
    Only({Only({FloatOf(s.neg, parts) : parts \in {split(s.rest, ".")}}) :
            s \in {Signed(strip(text))}})

Raised(r) == "raise" \in DOMAIN r

\* readMesh, lines 184-186: terms = l.split(','), int(terms[0]),
\* [float(t) for t in terms[1:]]
NodeOfTerms(terms) ==
    Only({IF Raised(number) THEN number
          ELSE IF \E k \in 1..Len(coords) : Raised(coords[k])
          THEN [raise |-> "ValueError"]
          ELSE [number |-> number.v,
                node |-> [k \in 1..Len(coords) |-> coords[k].v]] :
            number \in {int(terms[1])},
            coords \in {[k \in 1..(Len(terms) - 1) |-> float(terms[k + 1])] \o <<>>}})

NodeOfLine(line) == Only({NodeOfTerms(terms) : terms \in {split(strip(line), ",")}})

\* the first of the line numbers hits, or 0 when there is none
FirstLine(hits) == IF hits = {} THEN 0 ELSE Min(hits)

\* the number of the first line after start with a '*' in it, or 0
StopLine(lines, start) ==
    FirstLine({i \in (start + 1)..Len(lines) : Contains(lines[i], <<"*">>)})

\* the lines between the header at start and the line at stop, each read by
\* NodeOfLine (nodes) or TermsOfLine (elements)
DataLines(lines, start, stop) ==
    SubSeq(lines, start + 1, IF stop = 0 THEN Len(lines) ELSE stop - 1)

\* readMesh, lines 181-188: the node lines, up to the first line with a '*'
NodesRead(read, stop) ==
    IF \E i \in 1..Len(read) : Raised(read[i]) THEN [raise |-> "ValueError"]
    ELSE IF stop = 0 THEN [raise |-> "StopIteration"]
    ELSE [nodeNumbers |-> [i \in 1..Len(read) |-> read[i].number],
          nodes |-> [i \in 1..Len(read) |-> read[i].node]]

NodesFrom(lines, start) ==
    Only({Only({NodesRead(read, stop) :
                  read \in {[i \in 1..Len(data) |-> NodeOfLine(data[i])] \o <<>>}}) :
            stop \in {StopLine(lines, start)},
            data \in {DataLines(lines, start, StopLine(lines, start))}})

\* readMesh, the first with-block: the node section after the first line
\* that has nodeStartString in it
ReadNodes(lines) ==
    Only({IF start = 0 THEN [raise |-> "IOError"] ELSE NodesFrom(lines, start) :
            start \in {FirstLine({i \in 1..Len(lines) :
                          Contains(lines[i], <<"*", "N", "O", "D", "E">>)})}})

\* readMesh, lines 203-205: the last term of the header with TYPE in it
ElemTypeOfTerms(terms, typed) ==
    IF typed = {} THEN None
    ELSE IF \E k \in typed : Len(split(terms[k], "=")) < 2
    THEN [raise |-> "IndexError"]
    ELSE [v |-> strip(split(terms[Max(typed)], "=")[2])]

ElemTypeOf(header) ==
    Only({ElemTypeOfTerms(terms,
              {k \in 1..Len(terms) : Contains(upper(terms[k]), <<"T", "Y", "P", "E">>)}) :
            terms \in {split(header, ",")}})

\* readMesh, lines 233-235: the integers of one element line l, already
\* stripped
TermsOfWords(l, words) ==
    Only({IF \E k \in 1..Len(terms) : Raised(terms[k]) THEN [raise |-> "ValueError"]
          ELSE [v |-> [k \in 1..Len(terms) |-> terms[k].v]] :
            terms \in {IF Len(words) = 0 THEN <<int(l)>>
                       ELSE [k \in 1..Len(words) |-> int(words[k])] \o <<>>}})

NonEmpty(w) == w # <<>>

TermsOfLine(line) ==
    Only({Only({TermsOfWords(l, words) :
                  words \in {SelectSeq(split(l, ","), NonEmpty)}}) :
            l \in {strip(line)}})

\* readMesh, lines 236-249: the token counter after one more integer t
CountToken(s, t) ==
    IF Raised(s) THEN s
    ELSE IF s.nCount = -1
    THEN [s EXCEPT !.elemNumbers = Append(@, t), !.nCount = 0]
    ELSE IF s.nCount < s.en
    THEN IF s.nCount + 1 = s.en
         THEN [s EXCEPT !.elems = Append(@, Append(s.elem, t)), !.elem = <<>>,
                        !.nCount = -1]
         ELSE [s EXCEPT !.elem = Append(@, t), !.nCount = @ + 1]
    ELSE [raise |-> "RuntimeError"]

\* the token counter after the first n of the integers read
RECURSIVE CountTokens(_, _, _)
CountTokens(terms, en, n) ==
    IF n = 0
    THEN [en |-> en, nCount |-> -1, elem |-> <<>>, elemNumbers |-> <<>>,
          elems |-> <<>>]
    ELSE Only({CountToken(s, terms[n]) : s \in {CountTokens(terms, en, n - 1)}})

RECURSIVE Flatten(_, _)
Flatten(seqs, n) == IF n = 0 THEN <<>> ELSE Flatten(seqs, n - 1) \o seqs[n]

\* readMesh, lines 223-256: the elements of the integers read from the lines
ElemsRead(read, elemType) ==
    IF \E i \in 1..Len(read) : Raised(read[i]) THEN [raise |-> "ValueError"]
    ELSE Only({Only({IF Raised(s) THEN s
                     ELSE [elemType |-> elemType, elemNumbers |-> s.elemNumbers,
                           elems |-> s.elems] :
                       s \in {CountTokens(terms, ELEMNODES[elemType], Len(terms))}}) :
                 terms \in {Flatten([i \in 1..Len(read) |-> read[i].v], Len(read))}})

\* readMesh, lines 207-256: the element lines after the header at start, up to
\* the first line with a '*' or the end of the file
ElemsFrom(lines, start, elemType) ==
    Only({ElemsRead([i \in 1..Len(data) |-> TermsOfLine(data[i])] \o <<>>, elemType) :
            data \in {DataLines(lines, start, StopLine(lines, start))}})

\* readMesh, lines 207-210: the element type must be in the table
ElemsOfType(lines, start, elemType) ==
    IF elemType = None THEN [raise |-> "TypeError"]
    ELSE IF Raised(elemType) THEN elemType
    ELSE IF elemType.v \notin DOMAIN ELEMNODES THEN [raise |-> "RuntimeError"]
    ELSE ElemsFrom(lines, start, elemType.v)

\* readMesh, the second with-block: the element section after the first line
\* that has 'ELSET=' + meshName in it
ReadElems(lines, meshName) ==
    Only({IF start = 0 THEN [raise |-> "IOError"]
          ELSE Only({ElemsOfType(lines, start, elemType) :
                       elemType \in {ElemTypeOf(lines[start])}}) :
            start \in {FirstLine({i \in 1..Len(lines) :
                          Contains(lines[i], <<"E", "L", "S", "E", "T", "=">> \o meshName)})}})

\* the Mesh of the nodes n and the elements e read, or the exception raised
MeshRead(meshName, n, e) ==
    IF Raised(n) THEN n
    ELSE IF Raised(e) THEN e
    ELSE [name |-> meshName, nodes |-> n.nodes, nodeNumbers |-> n.nodeNumbers,
          elems |-> e.elems, elemNumbers |-> e.elemNumbers, elemType |-> e.elemType]

\* InpReader.readMesh(meshName): the Mesh it returns, or the exception
readMesh(lines, meshName) ==
    Only({MeshRead(meshName, n, e) :
            n \in {ReadNodes(lines)}, e \in {ReadElems(lines, meshName)}})

(***************************************************************************)
(* The INP specification: meshes are added to an InpWriter, the writer     *)
(* writes its file, and an InpReader reads meshes back from the file.      *)
(***************************************************************************)
Dec(neg, whole, frac) == [neg |-> neg, whole |-> whole, frac |-> frac]

\* node coordinates: short decimals, and decimals one digit longer than the
\* file keeps, rounding down, up with a carry, and to minus zero
NodePoints ==
    <<  <<Dec(FALSE, 0, <<>>), Dec(FALSE, 1, <<5>>), Dec(TRUE, 2, <<2, 5>>)>>,
        <<Dec(FALSE, 0, <<0, 0, 0, 0, 0, 0, 0, 0, 0, 0, 4>>),
          Dec(FALSE, 3, <<9, 9, 9, 9, 9, 9, 9, 9, 9, 9, 6>>),
          Dec(TRUE, 0, <<0, 0, 0, 0, 0, 0, 0, 0, 0, 0, 4>>)>>,
        <<Dec(FALSE, 12, <<>>), Dec(FALSE, 0, <<5>>), Dec(FALSE, 7, <<>>)>>  >>

\* a mesh of two T3D2 trusses, and a mesh of one S3 shell whose numbers have
\* two digits
MeshBodies ==
    {[nodeNumbers |-> <<1, 2, 3>>,
      nodes |-> <<NodePoints[1], NodePoints[2], NodePoints[3]>>,
      elemType |-> <<"T", "3", "D", "2">>, elemNumbers |-> <<1, 2>>,
      elems |-> <<<<1, 2>>, <<2, 3>>>>],
     [nodeNumbers |-> <<2, 7, 10>>,
      nodes |-> <<NodePoints[3], NodePoints[1], NodePoints[1]>>,
      elemType |-> <<"S", "3">>, elemNumbers |-> <<11>>,
      elems |-> <<<<2, 7, 10>>>>]}

\* the names of the meshes written, one a prefix of the other, and the names
\* asked of the reader, one of them the name of no mesh
MeshNames == {<<"a">>, <<"a", "b">>}
ReadNames == MeshNames \cup {<<"b">>}

\* Mesh(name) after setNodes and setElems
Meshes == {[name |-> name] @@ body : name \in MeshNames, body \in MeshBodies}

\* what the writer and the reader leave alone
inpIdle == <<GF, EP, EPMap, shaftAxis, neckAxis, xAxis, yAxis, epicondylarAxis,
             measurements, shaftAligned, file, pc, ip, sweepRan, lastSearch,
             nCalls, callerGF, other, pl>>

\* a file that is there before the writer is made: one comment line
ExistingFile == [lines |-> <<COMMENTCHARS \o <<"\n">>>>]

\* InpWriter(filename, autoFormat); no file of that name yet, or one
InpInit ==
    /\ EngineIdle
    /\ pl = None
    /\ \E autoFormat \in BOOLEAN : writer = [meshes |-> <<>>, autoFormat |-> autoFormat]
    /\ inpFile \in {None, ExistingFile}
    /\ readOut = None

\* writer.addMesh(mesh)
AddMesh ==
    /\ Len(writer.meshes) < MaxMeshes
    /\ \E mesh \in Meshes : writer' = [writer EXCEPT !.meshes = Append(@, mesh)]
    /\ lastOp' = "addMesh"
    /\ err' = "none"
    /\ UNCHANGED <<inpFile, readOut, inpIdle>>

\* writer.write()
Write ==
    /\ LET w == write(writer)
       IN IF "raise" \in DOMAIN w
          THEN err' = w.raise /\ inpFile' = inpFile
          ELSE err' = "none" /\ inpFile' = [lines |-> w.lines]
    /\ lastOp' = "write"
    /\ UNCHANGED <<writer, readOut, inpIdle>>

\* InpReader(filename).readMesh(meshName), on the file that is there
ReadMesh ==
    /\ inpFile # None
    /\ \E meshName \in ReadNames :
          LET r == readMesh(inpFile.lines, meshName)
          IN /\ readOut' = [meshName |-> meshName, out |-> r]
             /\ err' = IF "raise" \in DOMAIN r THEN r.raise ELSE "none"
    /\ lastOp' = "readMesh"
    /\ UNCHANGED <<writer, inpFile, inpIdle>>

InpNext ==
    \/ AddMesh
    \/ Write
    \/ ReadMesh

InpSpec == InpInit /\ [][InpNext]_vars

(***************************************************************************)
(* The reader on files of any origin: a node section and an element        *)
(* section, sound or not, in either order.                                 *)
(***************************************************************************)
\* lines of such files
L_NODEHDR == <<"*", "N", "O", "D", "E", "\n">>
L_NODE1 == <<"1", ",", " ", "0", ".", "5", ",", " ", "2", "\n">>
L_NODEX == <<"x", ",", " ", "0", ".", "5", ",", " ", "2", "\n">>
L_HDRNOTYPE == <<"*", "E", "L", "E", "M", "E", "N", "T", ",", " ", "E", "L", "S", "E", "T", "=", "a", "\n">>
L_HDRBADTYPE == <<"*", "E", "L", "E", "M", "E", "N", "T", ",", " ", "T", "Y", "P", "E", "=", "B", "3", "1", ",", " ", "E", "L", "S", "E", "T", "=", "a", "\n">>
L_HDRBARETYPE == <<"*", "E", "L", "E", "M", "E", "N", "T", ",", " ", "T", "Y", "P", "E", ",", " ", "E", "L", "S", "E", "T", "=", "a", "\n">>
L_ELEM1 == <<"1", ",", " ", "1", ",", " ", "2", "\n">>
L_ELEM1A == <<"1", ",", " ", "1", ",", "\n">>
L_ELEM1B == <<"2", "\n">>
L_ELEM2CUT == <<"2", ",", " ", "2", "\n">>
L_ELEMX == <<"1", ",", " ", "1", ",", " ", "x", "\n">>

\* node sections: none; one that a comment line ends; one that the file (or
\* the next header) ends; one with a node number that is no integer
NodeSections ==
    {<<>>,
     <<nodeHeaderLine(<<"a">>), L_NODE1, COMMENTCHARS \o <<"\n">>>>,
     <<L_NODEHDR, L_NODE1>>,
     <<L_NODEHDR, L_NODEX, COMMENTCHARS \o <<"\n">>>>}

\* element headers: of mesh a, of mesh ab, without a TYPE term, of a type
\* that is not in the table, with a TYPE term that has no value
ElemHeaders ==
    {elemHeaderLine(<<"T", "3", "D", "2">>, <<"a">>),
     elemHeaderLine(<<"T", "3", "D", "2">>, <<"a", "b">>),
     L_HDRNOTYPE, L_HDRBADTYPE, L_HDRBARETYPE}

\* element lines: none; one element on a line; one element over two lines;
\* a second element cut short; a node number that is no integer
ElemDatas ==
    {<<>>,
     <<L_ELEM1>>,
     <<L_ELEM1A, L_ELEM1B>>,
     <<L_ELEM1, L_ELEM2CUT>>,
     <<L_ELEMX>>}

\* element sections: none, or a header, its lines, and a comment line or not
ElemSections ==
    {<<>>} \cup {<<h>> \o d \o e : h \in ElemHeaders, d \in ElemDatas,
                                  e \in {<<>>, <<COMMENTCHARS \o <<"\n">>>>}}

InpFiles ==
    {n \o e : n \in NodeSections, e \in ElemSections}
       \cup {e \o n : n \in NodeSections, e \in ElemSections}

\* InpReader(filename) on a file that is there
ReadInit ==
    /\ EngineIdle
    /\ pl = None
    /\ writer = None
    /\ \E f \in InpFiles : inpFile = [lines |-> f]
    /\ readOut = None

ReadNext == ReadMesh

ReadSpec == ReadInit /\ [][ReadNext]_vars

(***************************************************************************)
(* The claims.                                                             *)
(***************************************************************************)
\* calcMeasurements has ended, by the last method's return or an exception
SweepEnded == lastOp = "calcMeasurements" /\ pc = "ready"

AxesOf == <<shaftAxis, neckAxis, xAxis, yAxis, epicondylarAxis>>

\* C1: after calcNeckAxis, when the free search findNeckMin found no footprint
\* point the result is the line search's (its footprint, its plane point, the
\* rough-fit direction as normal); when it found some, the result is the free
\* search's footprint, point and normal.
C1_FallbackSelection ==
    (lastOp = "calcNeckAxis" /\ err = "none") =>
        LET ret == measurements["neck_axis"].value
        IN IF Len(lastSearch.planePoints2) = 0
           THEN /\ neckAxis.planePoints = lastSearch.planePoints1
                /\ ret[1] = lastSearch.initialA
                /\ ret[2] = lastSearch.finalP1
           ELSE /\ neckAxis.planePoints = lastSearch.planePoints2
                /\ ret[1] = lastSearch.finalN
                /\ ret[2] = lastSearch.finalP2

\* C1 witness: calcNeckAxis returned the line search's non-empty footprint
\* after the free search had found no point.
C1_Witness ==
    /\ lastOp = "calcNeckAxis" /\ err = "none"
    /\ Len(lastSearch.planePoints2) = 0
    /\ Len(lastSearch.planePoints1) > 0
    /\ neckAxis.planePoints = lastSearch.planePoints1

\* C2: the footprint stored on the neck axis by calcNeckAxis is never empty.
C2_FootprintNeverEmpty ==
    (neckAxis # None /\ "planePoints" \in DOMAIN neckAxis) =>
        Len(neckAxis.planePoints) > 0

\* C3: a sweep in which a measurement method raised a configuration error
\* (a KeyError of a region lookup) has still called every measurement method.
C3_SweepSurvivesError ==
    (SweepEnded /\ err = "KeyError") =>
        \A i \in 1..Len(calcMeasurementsOrder) : calcMeasurementsOrder[i] \in sweepRan

\* C4: for an engine given a field, EP and EPMap are set before the shaft
\* axis, the shaft axis before the neck axis, the neck axis before the X and Y
\* axes, and all of them before any measurement method of a sweep runs.
C4_PrerequisiteOrder ==
    GF # None =>
        /\ (EP = None) = (EPMap = None)
        /\ shaftAxis # None => EP # None
        /\ neckAxis # None => shaftAxis # None
        /\ xAxis # None => neckAxis # None
        /\ (xAxis = None) = (yAxis = None)
        /\ (pc \in {"ready", "sweep"}) =>
              (EP # None /\ shaftAxis # None /\ neckAxis # None
                  /\ xAxis # None /\ yAxis # None)

\* C4 witness: a sweep on an engine given a field is at its last method.
C4_Witness ==
    /\ GF # None /\ pc = "sweep" /\ ip = Len(calcMeasurementsOrder)
    /\ EP # None /\ shaftAxis # None /\ neckAxis # None /\ xAxis # None

\* C5: after calcShaftAxis the z component of the shaft axis direction is not
\* negative, and the 'shaft_axis' record holds that direction.
C5_ShaftSign ==
    (lastOp = "calcShaftAxis" /\ err = "none") =>
        /\ shaftAxis.a[3] >= 0
        /\ measurements["shaft_axis"].value[1] = shaftAxis.a
        /\ measurements["shaft_axis"].value[2] = shaftAxis.b

\* C5 witness: calcShaftAxis has returned on the constructed engine.
C5_Witness ==
    /\ lastOp = "calcShaftAxis" /\ err = "none" /\ pc = "ready"
    /\ shaftAxis.a = <<0, 0, 1>>

\* C6: loadMeasurements right after saveMeasurements returns and leaves the
\* mapping as it was.
C6_RoundTrip ==
    [][(lastOp = "saveMeasurements" /\ lastOp' = "loadMeasurements") =>
          (err' = "none" /\ measurements' = measurements)]_vars

\* the regions a method looks up in EPMap
RegionsOf(method) ==
    CASE method = "calcShaftAxis" -> shaftElems
      [] method = "calcNeckAxis" -> neckElems \o headElems \o neckLongElems
      [] method = "head_diameter" -> headElems
      [] method = "neck_width" -> neckLongElems
      [] method = "femoral_axis_length" -> headElems \o gTrocElems
      [] method = "length_long" -> headElems \o mCondElems
      [] method = "length_short" -> gTrocElems \o lCondElems
      [] method = "anteversion_angle" -> lCondElems \o mCondElems
      [] OTHER -> <<>>

\* the method a step calls, from the step's two states
StepMethod ==
    IF lastOp' = "calcMeasurements"
    THEN calcMeasurementsOrder[IF pc = "sweep" THEN ip ELSE 1]
    ELSE lastOp'

\* C7: a method whose region holds an element that is not in EPMap ends with
\* a KeyError and leaves the measurement mapping and the axes as they were.
C7_FailFast ==
    [][(EPMap # None /\ ~HasElems(RegionsOf(StepMethod))) =>
          (err' = "KeyError" /\ measurements' = measurements /\ AxesOf' = AxesOf)]_vars

\* C7 witness: a measurement method of a sweep ended with a KeyError.
C7_Witness ==
    /\ SweepEnded /\ err = "KeyError"
    /\ ~HasElems(mCondElems)

\* C8: the evaluation points a sweep reads are those of the field as it is.
C8_EPFresh ==
    (lastOp = "calcMeasurements" /\ GF # None /\ EP # None) =>
        EP = Arr(evaluate_geometric_field(GF))

\* C9: a step of a sweep removes no key and changes or adds no record but
\* the one under the name of the measurement it computes.
C9_AppendOnly ==
    [][(lastOp' = "calcMeasurements") =>
          /\ DOMAIN measurements \subseteq DOMAIN measurements'
          /\ \A k \in DOMAIN measurements' :
                k # StepMethod => (k \in DOMAIN measurements
                                      /\ measurements'[k] = measurements[k])]_vars

\* C9 witness: a sweep has stored its eleventh record beside the axes' records.
C9_Witness ==
    /\ pc = "sweep" /\ ip = Len(calcMeasurementsOrder)
    /\ {"shaft_axis", "neck_axis", "epicondylar_width"} \subseteq DOMAIN measurements

\* C10: when a sweep on an engine given a field has ended, the mapping holds
\* an entry for each of the twelve measurements and for the two axes.
C10_SweepComplete ==
    (SweepEnded /\ GF # None) =>
        \A i \in 1..Len(AllNames) :
            AllNames[i] # "epicondylar_axis" => AllNames[i] \in DOMAIN measurements

\* C11: no step of an engine (its construction, an axis computation,
\* calcXYAxes with alignGF=True, a step of calcMeasurements, loadMeasurements)
\* changes the field object the caller passed, nor the field, EP, EPMap, axes
\* or measurement mapping of the second engine.
C11_InstancesIndependent ==
    [][/\ callerGF' = callerGF
       /\ other # None => other' = other]_vars

\* C11 witness: with a second engine in place, the first has transformed its
\* field, and the caller's field and the second engine's are as they were
\* handed over.
C11_Witness ==
    /\ other # None /\ shaftAligned
    /\ GF.nodes # callerGF.nodes
    /\ other.GF.nodes = callerGF.nodes /\ ~other.shaftAligned

\* calcNeckAxis has returned the line search's result
FallbackTaken ==
    lastOp = "calcNeckAxis" /\ err = "none" /\ Len(lastSearch.planePoints2) = 0

\* the attributes of the result of calcNeckAxis: those of self.neckAxis and
\* of the 'neck_axis' record
ResultAttributes == DOMAIN neckAxis \cup DOMAIN measurements["neck_axis"]

\* C12: a result of calcNeckAxis that came from the fallback carries a flag,
\* an attribute that a result of the free search does not have.
C12_FallbackFlagged ==
    FallbackTaken =>
        ResultAttributes # {"a", "b", "planePoints", "searchP0", "searchP1",
                            "name", "value"}

\* the points a measurement method hands to FT.fitSphere
SphereInput(method) ==
    CASE method = "head_diameter" -> RegionEP(headElems)
      [] method = "subtrochanteric_diameter" -> lineElementsEP(GF, subtrochanterNodes)
      [] method = "midshaft_diameter" -> lineElementsEP(GF, midshaftNodes)

EuclidClose(plane, p, maxDist) ==
    PlaneNum(plane, p) * PlaneNum(plane, p) < maxDist * maxDist * PlaneDen(plane)

\* C14: projectClosePoints returns the indices of exactly the points whose
\* Euclidean distance to the plane is below maxDist, and their projections.
C14_CloseIsEuclidean ==
    (pl # None /\ pl.stage # "drawn") =>
        /\ \A i \in 1..Len(pl.P) :
              EuclidClose(pl.plane, pl.P[i], pl.maxDist)
                  <=> (\E j \in 1..Len(pl.out.indices) : pl.out.indices[j] = i)
        /\ \A j \in 1..Len(pl.out.indices) :
              pl.out.points[j] = PlaneProjection(pl.plane, pl.P[pl.out.indices[j]])

\* C15: projectClosePoints applied to the points it returned, with the same
\* plane and maxDist, returns all of them, each unchanged.
C15_ProjectIdempotent ==
    (pl # None /\ pl.stage = "reprojected") =>
        /\ pl.again.points = pl.out.points
        /\ pl.again.indices = [j \in 1..Len(pl.out.points) |-> j]

\* C15 witness: two points off a plane with a normal of length 2 were
\* projected on it, and projected again.
C15_Witness ==
    /\ pl # None /\ pl.stage = "reprojected"
    /\ PlaneDen(pl.plane) = 4
    /\ Len(pl.out.points) = 2
    /\ \A j \in 1..2 : pl.out.points[j] # pl.P[pl.out.indices[j]]

\* C16: the directions of the shaft axis and of the neck axis, and those in
\* the 'shaft_axis' and 'neck_axis' records, have length 1.
C16_UnitDirections ==
    /\ shaftAxis # None => SumSq(shaftAxis.a) = 1
    /\ neckAxis # None => SumSq(neckAxis.a) = 1
    /\ \A k \in {"shaft_axis", "neck_axis"} \cap DOMAIN measurements :
          SumSq(measurements[k].value[1]) = 1

\* calcNeckAxis has returned
NeckAxisDone == lastOp = "calcNeckAxis" /\ err = "none"

\* C18: the free search is seeded at the point of the rough-fit axis closest
\* to the neck points (initP), with the rough-fit direction as normal.
C18_SeedIsClosestPoint ==
    NeckAxisDone =>
        /\ lastSearch.seedP.sum = Scale(lastSearch.seedP.n, lastSearch.initP)
        /\ lastSearch.seedN = lastSearch.initialA

\* C19: the plane point findNeckMinAlongLine returns is at a t in [0, 1] of
\* the line element from p0 to p1, and its footprint is that of the plane
\* through it with the normalised p1 - p0 as normal.
C19_LineSearchOnSegment ==
    NeckAxisDone =>
        LET p0 == lastSearch.returned[4]
            p1 == lastSearch.returned[5]
        IN /\ lastSearch.bestT \in 0..TDen
           /\ lastSearch.finalP1 = LineElement3D_eval(p0, p1, lastSearch.bestT)
           /\ lastSearch.planePoints1 =
                 projectClosePoints(Plane3D(norm(Sub(p1, p0)), lastSearch.finalP1),
                                    RegionEP(neckLongElems),
                                    planeProjectionMaxDist).points

\* u and v point the same way
SameDirection(u, v) == Cross(u, v) = <<0, 0, 0>> /\ Dot(u, v) > 0

\* C20: after calcNeckAxis the neck axis points along the normal the search
\* returned and starts at the point it returned, the 'neck_axis' record holds
\* that normal and that point, and the axis carries the footprint and the
\* two end points of the search.
C20_NeckAxisFromSearch ==
    NeckAxisDone =>
        LET ret == lastSearch.returned
        IN /\ SameDirection(neckAxis.a, ret[1])
           /\ neckAxis.b = ret[2]
           /\ measurements["neck_axis"].value = <<ret[1], ret[2]>>
           /\ neckAxis.planePoints = ret[3]
           /\ neckAxis.searchP0 = ret[4]
           /\ neckAxis.searchP1 = ret[5]

\* C20 witness: calcNeckAxis, called again on the constructed engine, has
\* returned the free search's plane with its footprint.
C20_Witness ==
    /\ NeckAxisDone /\ pc = "ready" /\ nCalls > 0
    /\ Len(lastSearch.planePoints2) > 0
    /\ neckAxis.b = lastSearch.finalP2
    /\ Len(neckAxis.planePoints) > 0

\* the meshes of the writer have names of their own
DistinctNames(meshes) ==
    \A i, j \in 1..Len(meshes) : meshes[i].name = meshes[j].name => i = j

\* the file on disk is the one write() makes of the writer's meshes
FileIsWritten ==
    /\ inpFile # None
    /\ Len(writer.meshes) > 0
    /\ inpFile.lines = write(writer).lines

\* the number a decimal stands for: no trailing zeros, and -0.0 == 0.0
CoordValue(x) ==
    LET nz == {i \in 1..Len(x.frac) : x.frac[i] # 0}
        frac == IF nz = {} THEN <<>> ELSE SubSeq(x.frac, 1, Max(nz))
    IN [neg |-> x.neg /\ ~(x.whole = 0 /\ frac = <<>>), whole |-> x.whole,
        frac |-> frac]

\* the nodes read are the nodes written, to the decimals of the file
SameCoords(read, written) ==
    /\ Len(read) = Len(written)
    /\ \A i \in 1..Len(written) :
          /\ Len(read[i]) = Len(written[i])
          /\ \A k \in 1..Len(written[i]) :
                CoordValue(read[i][k]) = CoordValue(RoundCoord(written[i][k]))

\* the mesh read is the mesh written
RoundTrips(read, written) ==
    /\ read.nodeNumbers = written.nodeNumbers
    /\ read.elemNumbers = written.elemNumbers
    /\ read.elems = written.elems
    /\ read.elemType = written.elemType
    /\ SameCoords(read.nodes, written.nodes)

\* C17: when an InpWriter holding one or more meshes (of distinct names) has
\* written its file, readMesh(name) for the name of a written mesh returns a
\* mesh with the node numbers, element numbers, connectivity and element type
\* of the written mesh of that name, and with its node coordinates to the
\* decimals of the file.
C17_WriteReadRoundTrip ==
    (/\ lastOp = "readMesh"
     /\ FileIsWritten
     /\ DistinctNames(writer.meshes)
     /\ \E i \in 1..Len(writer.meshes) : writer.meshes[i].name = readOut.meshName)
    => /\ err = "none"
       /\ \A i \in 1..Len(writer.meshes) :
             writer.meshes[i].name = readOut.meshName
                => RoundTrips(readOut.out, writer.meshes[i])

\* C21: a step of a calcMeasurements sweep changes nothing but the measurement
\* mapping and the epicondylar axis: the field, EP, EPMap, shaftAxis, neckAxis
\* (its direction, origin, footprint and search end points), xAxis and yAxis
\* are after the step what they were before it.
C21_SweepFrame ==
    [][lastOp' = "calcMeasurements" =>
          /\ GF' = GF /\ EP' = EP /\ EPMap' = EPMap
          /\ shaftAxis' = shaftAxis /\ neckAxis' = neckAxis
          /\ xAxis' = xAxis /\ yAxis' = yAxis]_vars

\* C21 witness: a sweep has run to its end on a constructed engine, calcNeckWidth
\* with its own searches included, and the neck axis still has its footprint.
C21_Witness ==
    /\ SweepEnded /\ err = "none"
    /\ sweepRan = {calcMeasurementsOrder[i] : i \in 1..Len(calcMeasurementsOrder)}
    /\ "neck_width" \in DOMAIN measurements
    /\ neckAxis # None /\ "planePoints" \in DOMAIN neckAxis
    /\ Len(neckAxis.planePoints) > 0

\* C29: a step of calcNeckWidth that returns stores as 'neck_width' the distance
\* between a point of greatest z and a point of least z of the footprint that
\* calcNeckAxis attached to the neck axis, with these two points as its
\* supporting points, whatever its own line search and free search find; and it
\* leaves the neck axis as it was.
C29_NeckWidthOfFootprint ==
    [][(lastOp' = "calcMeasurements" /\ StepMethod = "neck_width" /\ err' = "none") =>
          LET m == measurements'["neck_width"]
              planePoints == neckAxis.planePoints
          IN /\ \E i \in 1..Len(planePoints) : planePoints[i] = m.interceptSup
             /\ \E i \in 1..Len(planePoints) : planePoints[i] = m.interceptInf
             /\ \A i \in 1..Len(planePoints) :
                   /\ planePoints[i][3] <= m.interceptSup[3]
                   /\ planePoints[i][3] >= m.interceptInf[3]
             /\ m.value = Sqrt(SumSq(Sub(m.interceptSup, m.interceptInf)))
             /\ neckAxis' = neckAxis]_vars

\* C29 witness: calcNeckWidth has stored the width of a footprint of more than
\* one point, and the next method of the sweep has run.
C29_Witness ==
    /\ lastOp = "calcMeasurements" /\ "neck_shaft_angle" \in sweepRan
    /\ "neck_width" \in DOMAIN measurements
    /\ neckAxis # None /\ "planePoints" \in DOMAIN neckAxis
    /\ Len(neckAxis.planePoints) > 1
    /\ measurements["neck_width"].interceptSup # measurements["neck_width"].interceptInf

\* C26: on an engine that construction, calcShaftAxis, calcNeckAxis and
\* loadMeasurements have brought to its state, a neck axis that is set carries
\* the footprint and the two search end points that calcNeckWidth reads.
C26_NeckAxisCarriesFootprint ==
    (pc = "ready" /\ neckAxis # None)
    => {"planePoints", "searchP0", "searchP1"} \subseteq DOMAIN neckAxis

\* C30: on a constructed engine the 'shaft_axis' record is in the mapping
\* exactly when shaftAxis is set and then holds its direction and its origin,
\* and the 'neck_axis' record is there exactly when neckAxis is set and then
\* holds its direction and its origin (the direction up to its length).
C30_AxesAgreeWithMapping ==
    pc = "ready"
    => /\ ("shaft_axis" \in DOMAIN measurements) <=> (shaftAxis # None)
       /\ shaftAxis # None /\ "shaft_axis" \in DOMAIN measurements
             => /\ norm(measurements["shaft_axis"].value[1]) = shaftAxis.a
                /\ measurements["shaft_axis"].value[2] = shaftAxis.b
       /\ ("neck_axis" \in DOMAIN measurements) <=> (neckAxis # None)
       /\ neckAxis # None /\ "neck_axis" \in DOMAIN measurements
             => /\ norm(measurements["neck_axis"].value[1]) = neckAxis.a
                /\ measurements["neck_axis"].value[2] = neckAxis.b

\* C25: when calcEpicondylarWidthDistance has returned on a shaft-aligned
\* engine, 'epicondylar_width' holds the distance of the most distant pair of a
\* medial and a lateral condyle point, and p1 and p2 are the points of that
\* pair, whatever the sizes of the two point sets.
C25_MostDistantPair ==
    (lastOp = "calcEpicondylarWidthDistance" /\ err = "none")
    => LET m == measurements["epicondylar_width"]
           mCondEP == RegionEP(mCondElems)
           lCondEP == RegionEP(lCondElems)
       IN /\ mCondEP[CHOOSE i \in 1..Len(mCondEP) : EPMap.dict[6][i] = m.p1[1]] = m.p1[2]
          /\ lCondEP[CHOOSE j \in 1..Len(lCondEP) : EPMap.dict[7][j] = m.p2[1]] = m.p2[2]
          /\ m.value = Sqrt(SumSq(Sub(m.p1[2], m.p2[2])))
          /\ \A i \in 1..Len(mCondEP), j \in 1..Len(lCondEP) :
                SumSq(Sub(mCondEP[i], lCondEP[j])) <= m.value.sqrt

\* the projection of a point on the shaft axis
ShaftT(p) == Line3D_findClosestT(shaftAxis, p)

\* the stored length is not negative and is the difference of the shaft-axis
\* projections of the two supporting points, which are points of the regions
LengthOfSupport(m, proxPoint, distPoint) ==
    /\ m.value >= 0
    /\ m.value = Abs(ShaftT(proxPoint[2]) - ShaftT(distPoint[2]))
    /\ EP.arr[proxPoint[1]] = proxPoint[2]
    /\ EP.arr[distPoint[1]] = distPoint[2]

\* C28: the value calcFemoralLengthLong and calcFemoralLengthShort store is
\* not negative and equals the difference of the shaft-axis projections of the
\* two supporting points they store, for all non-empty sets of projections.
C28_LengthIsSupportDifference ==
    /\ (lastOp = "calcFemoralLengthLong" /\ err = "none")
       => LET m == measurements["length_long"]
          IN LengthOfSupport(m, m.headPoint, m.mCondPoint)
    /\ (lastOp = "calcFemoralLengthShort" /\ err = "none")
       => LET m == measurements["length_short"]
          IN LengthOfSupport(m, m.gTrocPoint, m.lCondPoint)

\* C28 witness: calcFemoralLengthLong has stored a length for a head region
\* that lies below the medial condyle, of another size than it, with points
\* at different heights in both.
C28_Witness ==
    /\ lastOp = "calcFemoralLengthLong" /\ err = "none"
    /\ Len(EPMap.dict[1]) # Len(EPMap.dict[6])
    /\ ShaftT(measurements["length_long"].headPoint[2])
          < ShaftT(measurements["length_long"].mCondPoint[2])
    /\ \E i, j \in 1..Len(RegionEP(headElems)) :
          ShaftT(RegionEP(headElems)[i]) # ShaftT(RegionEP(headElems)[j])
    /\ \E i, j \in 1..Len(RegionEP(mCondElems)) :
          ShaftT(RegionEP(mCondElems)[i]) # ShaftT(RegionEP(mCondElems)[j])

\* C23: readMesh ends by returning a Mesh or by raising IOError (no node
\* section, no element section of the name) or RuntimeError (an element type
\* that is not supported, a header without a TYPE term included); no other
\* exception leaves it, and it returns no Mesh when it raises.
C23_ReadMeshEndsDeclared ==
    lastOp = "readMesh"
    => /\ err \in {"none", "IOError", "RuntimeError"}
       /\ (err = "none") <=> ("elems" \in DOMAIN readOut.out)

\* the element loop of the last readMesh: the number of nodes of an element
\* and the integers of the element lines, or None when readMesh did not get
\* as far as its loop or a line held something that is no integer
ElementLoop ==
    LET lines == inpFile.lines
        start == FirstLine({i \in 1..Len(lines) :
                     Contains(lines[i], <<"E", "L", "S", "E", "T", "=">> \o readOut.meshName)})
        nodes == ReadNodes(lines)
        elemType == ElemTypeOf(lines[start])
        data == DataLines(lines, start, StopLine(lines, start))
        read == [i \in 1..Len(data) |-> TermsOfLine(data[i])]
    IN IF Raised(nodes) \/ start = 0 THEN None
       ELSE IF elemType = None \/ Raised(elemType) THEN None
       ELSE IF elemType.v \notin DOMAIN ELEMNODES THEN None
       ELSE IF \E i \in 1..Len(read) : Raised(read[i]) THEN None
       ELSE [en |-> ELEMNODES[elemType.v],
             terms |-> Flatten([i \in 1..Len(read) |-> read[i].v], Len(read))]

\* C27: in the element loop of readMesh the token counter stays between -1
\* and en - 1 and the RuntimeError of the loop is never raised; every element
\* stored has en node numbers, and the mesh returned has as many element
\* numbers as elements, each number the integer read just before the node
\* numbers of its element.
C27_ElementLoop ==
    (lastOp = "readMesh" /\ ElementLoop # None)
    => LET en == ElementLoop.en
           terms == ElementLoop.terms
           mesh == readOut.out
       IN /\ \A n \in 0..Len(terms) :
                /\ ~Raised(CountTokens(terms, en, n))
                /\ CountTokens(terms, en, n).nCount \in -1..(en - 1)
          /\ err = "none"
          /\ \A i \in 1..Len(mesh.elems) : Len(mesh.elems[i]) = en
          /\ Len(mesh.elemNumbers) = Len(mesh.elems)
          /\ terms = Flatten([i \in 1..Len(mesh.elems) |->
                                 <<mesh.elemNumbers[i]>> \o mesh.elems[i]],
                             Len(mesh.elems))

\* the lines of a file that hold sub, in the order of the file
LinesWith(lines, sub) ==
    LET hits == {i \in 1..Len(lines) : Contains(lines[i], sub)}
    IN [k \in 1..Cardinality(hits) |->
          lines[CHOOSE i \in hits : Cardinality({j \in hits : j <= i}) = k]]

\* C24: write() on a writer without a mesh raises RuntimeError and leaves the
\* file of its name as it was, there or not; write() on a writer with meshes
\* writes the node sections and the element sections of the meshes in the
\* order the meshes were added.
C24_WriteGuardAndOrder ==
    [][lastOp' = "write" =>
          IF Len(writer.meshes) = 0
          THEN err' = "RuntimeError" /\ inpFile' = inpFile
          ELSE /\ err' = "none"
               /\ LinesWith(inpFile'.lines, <<"*", "N", "O", "D", "E">>)
                     = [i \in 1..Len(writer.meshes) |->
                          nodeHeaderLine(writer.meshes[i].name)]
               /\ LinesWith(inpFile'.lines, <<"*", "E", "L", "E", "M", "E", "N", "T">>)
                     = [i \in 1..Len(writer.meshes) |->
                          elemHeaderLine(writer.meshes[i].elemType,
                                         writer.meshes[i].name)]]_vars

\* C24 witness: a writer with two meshes of different names has written its
\* file.
C24_Witness ==
    /\ lastOp = "write" /\ err = "none"
    /\ Len(writer.meshes) = 2
    /\ writer.meshes[1].name # writer.meshes[2].name
    /\ inpFile # None /\ inpFile # ExistingFile

\* C22: readMesh(meshName) on a written file of several meshes of distinct
\* names returns the node numbers, the element numbers and the elements of the
\* mesh of exactly that name, not those of another mesh and not those of a
\* mesh of whose name meshName is only a part.
C22_ExactNameSections ==
    (/\ lastOp = "readMesh" /\ err = "none"
     /\ FileIsWritten
     /\ DistinctNames(writer.meshes))
    => \E i \in 1..Len(writer.meshes) :
          /\ writer.meshes[i].name = readOut.meshName
          /\ readOut.out.nodeNumbers = writer.meshes[i].nodeNumbers
          /\ readOut.out.elemNumbers = writer.meshes[i].elemNumbers
          /\ readOut.out.elems = writer.meshes[i].elems
          /\ readOut.out.elemType = writer.meshes[i].elemType

====
